---- MODULE Spec2Model ----
(***************************************************************************)
(* Deterministic post-processing and verified-coding core of               *)
(* voice_to_fhir: post_processor.post_process, icd10_lookup, rxnorm_lookup *)
(* and order_diagnosis_linker, together with the two places that call      *)
(* post_process (MedGemmaClient.extract and the request handler of         *)
(* server.py).                                                             *)
(*                                                                         *)
(* Text is modelled by concrete strings drawn from a small alphabet; the   *)
(* string functions of the code (lower, strip, capitalize, substring test) *)
(* are tables over that alphabet.  A transcript is modelled by what the    *)
(* regular-expression scans of the code capture from it.                   *)
(***************************************************************************)
EXTENDS Integers, Sequences, FiniteSets, TLC

VARIABLES
    g,          \* the ClinicalEntities object of the single-call specifications
    g_in,       \* the object as it was handed to the first call
    g_once,     \* the object as the first post_process call returned it
    transcript, \* the transcript the call was given
    pc,         \* position of the single caller
    raised,     \* TRUE when a call ended with an exception
    req,        \* the concurrent requests of the service: id -> request state
    tables      \* the module-level tables shared by every call

vars == <<g, g_in, g_once, transcript, pc, raised, req, tables>>

-----------------------------------------------------------------------------
(* Python values *)

\* Python's None, for fields typed "str | None"
None == "<None>"

\* str.lower()
Lower(s) ==
    CASE s = "Cough" -> "cough"
      [] s = "NULL" -> "null"
      [] s = " Null" -> " null"
      [] s = "N/A" -> "n/a"
      [] s = "CBC" -> "cbc"
      [] s = "Hypertension" -> "hypertension"
      [] s = "Type 2 Diabetes Mellitus" -> "type 2 diabetes mellitus"
      [] s = "Lisinopril" -> "lisinopril"
      [] s = "Amoxicillin" -> "amoxicillin"
      [] s = "Diet" -> "diet"
      [] s = "Cardiology" -> "cardiology"
      [] s = "Mother" -> "mother"
      [] s = "Stroke" -> "stroke"
      [] s = "mmHg" -> "mmhg"
      [] s = "BP" -> "bp"
      [] s = "Unknown" -> "unknown"
      [] s = "Never smoker" -> "never smoker"
      [] s = "EKG" -> "ekg"
      [] s = "Essential hypertension" -> "essential hypertension"
      [] s = "Heart failure, unspecified" -> "heart failure, unspecified"
      [] s = "Hyperlipidemia, unspecified" -> "hyperlipidemia, unspecified"
      [] s = "Acute upper respiratory infection, unspecified" ->
            "acute upper respiratory infection, unspecified"
      [] s = "Pneumonia, unspecified organism" -> "pneumonia, unspecified organism"
      [] s = "Type 2 diabetes mellitus without complications" ->
            "type 2 diabetes mellitus without complications"
      [] s = "Anemia, unspecified" -> "anemia, unspecified"
      [] s = "Encounter for immunization" -> "encounter for immunization"
      [] s = "Atherosclerotic heart disease" -> "atherosclerotic heart disease"
      [] s = "Unspecified atrial fibrillation" -> "unspecified atrial fibrillation"
      [] s = "Tachycardia, unspecified" -> "tachycardia, unspecified"
      [] OTHER -> s

\* str.strip()
Strip(s) ==
    CASE s = " null" -> "null"
      [] s = " Null" -> "Null"
      [] s = "cbc " -> "cbc"
      [] s = " lisinopril" -> "lisinopril"
      [] s = " cough" -> "cough"
      [] s = " " -> ""
      [] OTHER -> s

\* str.capitalize()
Capitalize(s) ==
    CASE s = "lisinopril" -> "Lisinopril"
      [] s = "amoxicillin" -> "Amoxicillin"
      [] s = "diet" -> "Diet"
      [] s = "mother" -> "Mother"
      [] s = "none" -> "None"
      [] OTHER -> s

\* the proper-substring pairs <<a, b>> (a in b, a # b) of the alphabet
SubstringPairs ==
    { <<"pneumonia", "pneumonia. bp 120/80">>,
      <<"diabetes", "diabetes mellitus today">>, <<"mellitus", "diabetes mellitus today">>,
      <<"diabetes mellitus", "diabetes mellitus today">>,
      <<"diabetes", "diabetes mellitus">>, <<"mellitus", "diabetes mellitus">>,
      <<"diabetes mellitus", "type 2 diabetes mellitus">>,
      <<"diabetes mellitus", "type 2 diabetes mellitus without complications">>,
      <<"pneumonia", "community-acquired pneumonia">>,
      <<"pain", "chest pain">>,
      <<"essential hypertension", "essential hypertension, benign">>,
      <<"hypertension", "essential hypertension">>,
      <<"hypertension", "essential hypertension, benign">>,
      <<"diet", "low salt diet">>,
      <<"null", " null">>,
      <<"pneumonia", "pneumonia, unspecified organism">>,
      <<"atrial fibrillation", "unspecified atrial fibrillation">>,
      <<"cbc", "cbc with diff">>,
      <<"cbc", "cbc ">>,
      <<"lisinopril", " lisinopril">>,
      <<"lisinopril", "lisinoprill">>,
      <<"cough", " cough">>,
      <<"itis", "tendinitis">>,
      <<"diabetes", "sugar diabetes">>,
      <<"diabetes", "type 2 diabetes mellitus">>,
      <<"mellitus", "type 2 diabetes mellitus">>,
      <<"type 2 diabetes mellitus", "type 2 diabetes mellitus without complications">> }

\* Python's "a in b" on two strings
Contains(a, b) == a = "" \/ a = b \/ <<a, b>> \in SubstringPairs

\* bool(x) of a "str | None" value
Truthy(s) == s # None /\ s # ""

PLACEHOLDER_VALUES ==
    { "null", "none", "not mentioned", "not specified", "unknown", "n/a", "na",
      "not applicable", "not available", "not provided", "not stated",
      "not documented", "no information", "unspecified", "" }

is_placeholder(value) == value = None \/ Strip(Lower(value)) \in PLACEHOLDER_VALUES

null_to_none(value) == IF value # None /\ Lower(value) = "null" THEN None ELSE value

Range(s) == { s[i] : i \in DOMAIN s }

\* index of the first TRUE of a sequence of tests, 0 when there is none
FirstIndex(tests) ==
    IF \E i \in DOMAIN tests : tests[i]
    THEN CHOOSE i \in DOMAIN tests : tests[i] /\ \A j \in 1..(i - 1) : ~tests[j]
    ELSE 0

-----------------------------------------------------------------------------
(* Vitals: numeric text *)

\* the numbers whose decimal text occurs as a vital value
Numbers == { 30, 72, 74, 80, 85, 88, 100, 118, 120, 130, 142 }

\* float(value_str) succeeds
IsNumeric(s) == \E n \in Numbers : ToString(n) = s

\* float(value_str)
ToNumber(s) == CHOOSE n \in Numbers : ToString(n) = s

\* f"{systolic}/{diastolic}"
PairText(a, b) == ToString(a) \o "/" \o ToString(b)

\* re.match(r'^(\d+)\s*/\s*(\d+)$', value)
IsPairText(s) == \E a, b \in Numbers : s = PairText(a, b)

\* "/" in value_str
HasSlash(s) == IsPairText(s) \/ s \in { "n/a", "N/A", "120/" }

value_str(v) == IF Truthy(v.value) THEN v.value ELSE ""

unit_lower(v) == IF Truthy(v.unit) THEN Lower(v.unit) ELSE ""

type_lower(v) == IF Truthy(v.type) THEN Lower(v.type) ELSE ""

Vital(type, value, unit) == [type |-> type, value |-> value, unit |-> unit]

\* a scan that would keep the pair of the last matching pattern
last_matching_pattern(t) ==
    LET hit == { i \in DOMAIN t.bp_matches : t.bp_matches[i] # None }
    IN  IF hit = {} THEN <<>>
        ELSE << Vital("blood_pressure",
                      t.bp_matches[CHOOSE i \in hit : \A j \in hit : j <= i], "mmHg") >>

\* the Vital built from the first matching blood-pressure pattern, as a
\* sequence of zero or one vitals; transcript.bp_matches[i] is the pair
\* "systolic/diastolic" that pattern i of bp_patterns captures, None when
\* it does not match
extract_blood_pressure_from_transcript(t) ==
    LET i == FirstIndex([ idx \in DOMAIN t.bp_matches |-> t.bp_matches[idx] # None ])
    IN  IF i = 0 THEN <<>> ELSE << Vital("blood_pressure", t.bp_matches[i], "mmHg") >>

IsBPUnit(v) == unit_lower(v) \in { "mmhg", "mm hg" }

InRange(lo, s, hi) == IsNumeric(s) /\ lo <= ToNumber(s) /\ ToNumber(s) <= hi

ensure_removes(v) ==
    \/ type_lower(v) \in { "blood_pressure", "bp" }
    \/ IsBPUnit(v) /\ (HasSlash(value_str(v)) \/ InRange(40, value_str(v), 220))

ensure_blood_pressure_from_transcript(vitals, t) ==
    LET bp == extract_blood_pressure_from_transcript(t)
        keep(v) == ~ensure_removes(v)
    IN  IF bp = <<>> THEN vitals ELSE bp \o SelectSeq(vitals, keep)

IsBPComponent(v) == IsBPUnit(v) /\ InRange(40, value_str(v), 220)

Max2(a, b) == IF a >= b THEN a ELSE b

Min2(a, b) == IF a <= b THEN a ELSE b

\* returns [non_bp |-> vitals, merged |-> zero or one vital]
merge_split_blood_pressure(vitals, t) ==
    LET slash(v) == HasSlash(value_str(v))
        i == FirstIndex([ idx \in DOMAIN vitals |-> slash(vitals[idx]) ])
        comp(v) == IsBPComponent(v)
        rest(v) == ~IsBPComponent(v)
        potential == SelectSeq(vitals, comp)
        non_bp == SelectSeq(vitals, rest)
        systolic == Max2(ToNumber(value_str(potential[1])), ToNumber(value_str(potential[2])))
        diastolic == Min2(ToNumber(value_str(potential[1])), ToNumber(value_str(potential[2])))
        bp == extract_blood_pressure_from_transcript(t)
    IN  IF i # 0
        THEN LET other(vv) == vv # vitals[i]
             IN  [ non_bp |-> SelectSeq(vitals, other),
                   merged |-> << Vital("blood_pressure", value_str(vitals[i]), "mmHg") >> ]
        ELSE IF Len(potential) = 2 /\ systolic > diastolic
                /\ 20 <= systolic - diastolic /\ systolic - diastolic <= 120
        THEN [ non_bp |-> non_bp,
               merged |-> << Vital("blood_pressure", PairText(systolic, diastolic), "mmHg") >> ]
        ELSE IF potential # <<>> /\ bp # <<>>
        THEN [ non_bp |-> non_bp, merged |-> bp ]
        ELSE IF Len(potential) = 1
        THEN [ non_bp |-> non_bp,
               merged |-> << Vital("blood_pressure", value_str(potential[1]), "mmHg") >> ]
        ELSE [ non_bp |-> non_bp, merged |-> <<>> ]

\* the type inferred for an untyped vital from its unit or its value range;
\* a sequence of zero (the vital is skipped) or one vital
infer_vital(v, has_bp) ==
    LET u == unit_lower(v)
        vs == value_str(v)
        n == ToNumber(vs)
    IN  IF ~IsNumeric(vs) THEN << v >>
        ELSE IF u \in { "bpm", "beats per minute", "beats/min" }
        THEN << Vital("heart_rate", vs, "bpm") >>
        ELSE IF u \in { "f", "fahrenheit" } THEN << Vital("temperature", vs, "F") >>
        ELSE IF u \in { "c", "celsius" } THEN << Vital("temperature", vs, "C") >>
        ELSE IF u \in { "lbs", "lb", "pounds" } THEN << Vital("weight", vs, "lbs") >>
        ELSE IF u \in { "kg", "kilograms" } THEN << Vital("weight", vs, "kg") >>
        ELSE IF u \in { "%", "percent" } THEN << Vital("oxygen_saturation", vs, "%") >>
        ELSE IF u \in { "breaths/min", "breaths per minute", "/min" }
        THEN << Vital("respiratory_rate", vs, "breaths/min") >>
        ELSE IF u \in { "mmhg", "mm hg" }
        THEN IF ~has_bp /\ 70 <= n /\ n <= 200
             THEN << Vital("blood_pressure", vs, "mmHg") >>
             ELSE <<>>
        ELSE IF 90 <= n /\ n <= 110 THEN << Vital("temperature", vs, "F") >>
        ELSE IF 140 <= n /\ n <= 300 THEN << Vital("weight", vs, "lbs") >>
        ELSE IF 30 <= n /\ n <= 180 THEN << Vital("heart_rate", vs, "bpm") >>
        ELSE << v >>

\* the loop of normalize_vitals over non_bp_vitals; returns
\* [normalized |-> vitals, has_bp |-> BOOLEAN]
RECURSIVE normalize_loop(_, _, _, _)
normalize_loop(rest, acc, has_bp, t) ==
    IF rest = <<>> THEN [ normalized |-> acc, has_bp |-> has_bp ]
    ELSE LET v == Head(rest)
             vs == value_str(v)
             bp == extract_blood_pressure_from_transcript(t)
         IN  IF HasSlash(vs)
             THEN normalize_loop(Tail(rest),
                                 Append(acc, Vital("blood_pressure", vs, "mmHg")), TRUE, t)
             ELSE IF type_lower(v) \in { "blood_pressure", "bp" }
             THEN IF has_bp
                  THEN normalize_loop(Tail(rest), acc, has_bp, t)
                  ELSE IF bp # <<>>
                  THEN normalize_loop(Tail(rest), acc \o bp, TRUE, t)
                  ELSE normalize_loop(Tail(rest),
                                      Append(acc, Vital("blood_pressure", vs, "mmHg")), TRUE, t)
             ELSE IF ~Truthy(v.type) \/ is_placeholder(v.type)
             THEN normalize_loop(Tail(rest), acc \o infer_vital(v, has_bp), has_bp, t)
             ELSE normalize_loop(Tail(rest), Append(acc, v), has_bp, t)

normalize_vitals(vitals, t) ==
    LET m == merge_split_blood_pressure(vitals, t)
        r == normalize_loop(m.non_bp, m.merged, m.merged # <<>>, t)
    IN  IF r.has_bp THEN r.normalized
        ELSE r.normalized \o extract_blood_pressure_from_transcript(t)

is_valid_vital_value(value, vital_type) ==
    /\ Truthy(value)
    /\ \/ (HasSlash(value) \/ Lower(vital_type) \in { "blood_pressure", "bp" })
          /\ IsPairText(value)
       \/ IsNumeric(value)

filter_vitals(vitals) ==
    LET keep(v) ==
            /\ ~is_placeholder(v.value)
            /\ is_valid_vital_value(v.value, IF Truthy(v.type) THEN v.type ELSE "")
    IN  SelectSeq(vitals, keep)

-----------------------------------------------------------------------------
(* Verified coding lookup: diagnoses *)

\* the keys of the excerpt of ICD10_DATABASE, in insertion order
ICD10_KEYS ==
    << "angina", "chest pain", "hypertension", "essential hypertension",
       "atrial fibrillation", "pneumonia", "community acquired pneumonia",
       "cough", "diabetes mellitus", "type 2 diabetes", "type 2 diabetes mellitus",
       "acute kidney injury",
       "tendinitis", "fever" >>

\* ICD10_DATABASE[key].code
ICD10_DATABASE(key) ==
    CASE key = "angina" -> "I20.9"
      [] key = "chest pain" -> "R07.9"
      [] key = "hypertension" -> "I10"
      [] key = "essential hypertension" -> "I10"
      [] key = "atrial fibrillation" -> "I48.91"
      [] key = "pneumonia" -> "J18.9"
      [] key = "community acquired pneumonia" -> "J18.9"
      [] key = "cough" -> "R05.9"
      [] key = "diabetes mellitus" -> "E11.9"
      [] key = "type 2 diabetes" -> "E11.9"
      [] key = "type 2 diabetes mellitus" -> "E11.9"
      [] key = "acute kidney injury" -> "N17.9"
      [] key = "tendinitis" -> "M77.9"
      [] key = "fever" -> "R50.9"

\* the excerpt of SYNONYMS, as <<alias, canonical name>> pairs
SYNONYMS ==
    { <<"sugar diabetes", "type 2 diabetes">>,
      <<"kidney failure", "acute kidney injury">> }

\* the loop over the prefixes "acute ", "chronic ", "unspecified ", "history of ", "h/o "
StripPrefixes(s) ==
    CASE s = "acute kidney injury" -> "kidney injury"
      [] s = "chronic cough" -> "cough"
      [] OTHER -> s

\* re.sub(r'[^\w\s]', ' ', name) followed by the whitespace collapse
StripPunctuation(s) ==
    CASE s = "community-acquired pneumonia" -> "community acquired pneumonia"
      [] s = "n/a" -> "n a"
      [] OTHER -> s

normalize_condition(name) ==
    IF ~Truthy(name) THEN ""
    ELSE StripPunctuation(StripPrefixes(Strip(Lower(name))))

\* SequenceMatcher(None, s1, s2).ratio() in ten-thousandths; the pairs of the
\* alphabet that are not listed have a ratio below 0.80
similarity_score(s1, s2) ==
    CASE s1 = s2 -> 10000
      [] s1 = "hypertenson" /\ s2 = "hypertension" -> 9565
      [] s1 = "kidney injury" /\ s2 = "acute kidney injury" -> 8125
      [] s1 = "lisinoprill" /\ s2 = "lisinopril" -> 9524
      [] s1 = "vancocin" /\ s2 = "vancomycin" -> 8889
      [] s1 = "diabetes mellitus today" /\ s2 = "diabetes mellitus" -> 8500
      [] s1 = "type 2 diabetes mellitus" /\ s2 = "diabetes mellitus" -> 8293
      [] OTHER -> 0

\* min_similarity, the default of lookup_icd10 and lookup_rxnorm, in ten-thousandths
MIN_SIMILARITY == 8500

\* round(best_score, 2), in hundredths
Round2(score) == (score + 50) \div 100

NoCode == [ code |-> None, confidence |-> 0 ]

\* the fuzzy tier: the scan of the table keys in iteration order, keeping the
\* first key with the strictly highest score at or above min_similarity
RECURSIVE fuzzy_scan(_, _, _, _)
fuzzy_scan(keys, normalized, best_key, best_score) ==
    IF keys = <<>> THEN [ key |-> best_key, score |-> best_score ]
    ELSE LET score == similarity_score(normalized, Head(keys))
         IN  IF score > best_score /\ score >= MIN_SIMILARITY
             THEN fuzzy_scan(Tail(keys), normalized, Head(keys), score)
             ELSE fuzzy_scan(Tail(keys), normalized, best_key, best_score)

\* returns [code, confidence], the confidence in hundredths
lookup_icd10(condition_name) ==
    LET normalized == normalize_condition(condition_name)
        syn == IF \E c \in Range(ICD10_KEYS) : <<normalized, c>> \in tables.SYNONYMS
               THEN CHOOSE c \in Range(ICD10_KEYS) : <<normalized, c>> \in tables.SYNONYMS
               ELSE None
        best == fuzzy_scan(ICD10_KEYS, normalized, None, 0)
    IN  IF ~Truthy(condition_name) THEN NoCode
        ELSE IF normalized \in DOMAIN tables.ICD10_DATABASE
        THEN [ code |-> tables.ICD10_DATABASE[normalized], confidence |-> 100 ]
        ELSE IF syn # None
        THEN [ code |-> tables.ICD10_DATABASE[syn], confidence |-> 95 ]
        ELSE IF best.key # None
        THEN [ code |-> tables.ICD10_DATABASE[best.key], confidence |-> Round2(best.score) ]
        ELSE NoCode

\* the confidence a lookup code must reach to be written, in hundredths
CODE_THRESHOLD == 85

enrich_condition(condition) ==
    LET r == lookup_icd10(condition.name)
    IN  IF ~Truthy(condition.name) THEN condition
        ELSE IF r.code # None /\ r.confidence >= CODE_THRESHOLD
        THEN [ condition EXCEPT !.icd10 = r.code, !.confidence = r.confidence ]
        ELSE condition

enrich_conditions_with_icd10(conditions) ==
    [ i \in DOMAIN conditions |-> enrich_condition(conditions[i]) ]

-----------------------------------------------------------------------------
(* Conditions: resolved status and chief complaint *)

\* a scan that would resolve only a condition named exactly as captured
exact_resolved_name(name, t) == Strip(Lower(name)) \in t.resolved

\* the lower-cased names captured by resolved_patterns are transcript.resolved
is_resolved_name(name, t) ==
    LET condition_lower == Strip(Lower(name))
    IN  \E resolved_name \in t.resolved :
            Contains(resolved_name, condition_lower) \/ Contains(condition_lower, resolved_name)

\* index of the first condition whose name is None, 0 when there is none
FirstNoneName(conditions) ==
    LET unnamed(c) == c.name = None
    IN  FirstIndex([ idx \in DOMAIN conditions |-> unnamed(conditions[idx]) ])

\* condition.name.lower() on a None name raises AttributeError
detect_resolved_raises(conditions, t) ==
    t.resolved # {} /\ FirstNoneName(conditions) # 0

\* the conditions of index below stop are updated (all of them when stop = 0)
detect_resolved_upto(conditions, t, stop) ==
    [ i \in DOMAIN conditions |->
        IF (stop = 0 \/ i < stop) /\ t.resolved # {} /\ is_resolved_name(conditions[i].name, t)
        THEN [ conditions[i] EXCEPT !.status = "resolved" ]
        ELSE conditions[i] ]

detect_resolved_status_from_transcript(conditions, t) ==
    detect_resolved_upto(conditions, t, FirstNoneName(conditions))

\* what extract_section returns for the content that follows a marker
\* (None when the marker is absent)
extract_section(content) ==
    IF Truthy(content) /\ ~is_placeholder(content) THEN content ELSE None

diagnosis_indicators ==
    { "pharyngitis", "pneumonia", "diabetes", "hypertension", "syndrome",
      "disease", "disorder", "infection", "mellitus", "carcinoma", "failure",
      "insufficiency", "infarction", "ischemia", "fibrillation", "embolism" }

is_diagnosis(name) ==
    \E indicator \in diagnosis_indicators : Contains(indicator, Lower(name))

\* strategy 9: the first flagged condition whose name is no placeholder and
\* holds no diagnosis indicator
medgemma_chief_complaint(conditions) ==
    LET usable(c) == c.is_chief_complaint /\ ~is_placeholder(c.name) /\ ~is_diagnosis(c.name)
        i == FirstIndex([ idx \in DOMAIN conditions |-> usable(conditions[idx]) ])
    IN  IF i = 0 THEN None ELSE conditions[i].name

extract_chief_complaint(t, conditions) ==
    LET cc == extract_section(t.cc_section)
        ch == extract_section(t.ch_section)
        subj == extract_section(t.subj_section)
    IN  IF Truthy(cc) THEN cc
        ELSE IF Truthy(ch) THEN (IF t.ch_with # None THEN t.ch_with ELSE ch)
        ELSE IF Truthy(subj) /\ t.subj_presents # None THEN t.subj_presents
        ELSE IF t.presents # None /\ ~is_placeholder(t.presents) THEN t.presents
        ELSE IF t.cc_abbrev # None /\ ~is_placeholder(t.cc_abbrev) THEN t.cc_abbrev
        ELSE IF t.admitted # None /\ ~is_placeholder(t.admitted) THEN t.admitted
        ELSE IF t.followup # None /\ ~is_placeholder(t.followup)
        THEN t.followup \o " follow-up"
        ELSE IF t.visit # None /\ ~is_placeholder(t.visit) THEN t.visit
        ELSE medgemma_chief_complaint(conditions)

\* what each of the nine strategies of extract_chief_complaint hands to the
\* chain, in program order; None where the strategy falls through
strategy_results(t, conditions) ==
    LET ch == extract_section(t.ch_section)
        subj == extract_section(t.subj_section)
        checked(capture) == IF capture # None /\ ~is_placeholder(capture) THEN capture ELSE None
    IN  << extract_section(t.cc_section),
           IF ~Truthy(ch) THEN None ELSE IF t.ch_with # None THEN t.ch_with ELSE ch,
           IF Truthy(subj) THEN t.subj_presents ELSE None,
           checked(t.presents),
           checked(t.cc_abbrev),
           checked(t.admitted),
           IF checked(t.followup) # None THEN t.followup \o " follow-up" ELSE None,
           checked(t.visit),
           medgemma_chief_complaint(conditions) >>

\* index of the condition the flagging loop of post_process stops at:
\* the first one named like the complaint or named None, 0 when there is none
flag_stop(conditions, chief_complaint) ==
    LET stops(c) == c.name = None \/ Lower(c.name) = Lower(chief_complaint)
    IN  FirstIndex([ idx \in DOMAIN conditions |-> stops(conditions[idx]) ])

\* condition.name.lower() on a None name raises AttributeError
flag_raises(conditions, chief_complaint) ==
    /\ Truthy(chief_complaint)
    /\ flag_stop(conditions, chief_complaint) # 0
    /\ conditions[flag_stop(conditions, chief_complaint)].name = None

\* a flagging step that would add the complaint as a new condition when no
\* condition is named like it, instead of flagging the first condition
flag_or_add_condition(conditions, chief_complaint) ==
    LET i == flag_stop(conditions, chief_complaint)
    IN  IF ~Truthy(chief_complaint) THEN conditions
        ELSE IF i # 0 THEN [ conditions EXCEPT ![i].is_chief_complaint = TRUE ]
        ELSE Append(conditions,
                    [ id |-> Len(conditions) + 1, name |-> chief_complaint,
                      status |-> "active", severity |-> None, icd10 |-> None,
                      is_chief_complaint |-> TRUE, confidence |-> 100 ])

\* lines 1073-1084 of post_process: the first condition named like the
\* complaint is flagged, else the first condition; no flag is cleared
flag_chief_complaint(conditions, chief_complaint) ==
    LET i == flag_stop(conditions, chief_complaint)
        k == IF i # 0 THEN i ELSE 1
    IN  IF ~Truthy(chief_complaint) \/ conditions = <<>> THEN conditions
        ELSE [ conditions EXCEPT ![k].is_chief_complaint = TRUE ]

filter_conditions(conditions) ==
    LET keep(c) == ~is_placeholder(c.name)
    IN  SelectSeq(conditions, keep)

-----------------------------------------------------------------------------
(* Filters and the null-string scrub *)

filter_allergies(allergies) ==
    LET keep(a) == ~is_placeholder(a.substance)
    IN  SelectSeq(allergies, keep)

filter_medications(medications) ==
    LET keep(m) == ~is_placeholder(m.name)
    IN  SelectSeq(medications, keep)

\* the words of non_medication_patterns that match anywhere in a name
non_medication_words ==
    { "pathology", "diet", "driving", "activity", "counseling" }

\* the names of the alphabet that start with one of the leading verbs
\* (await, resume, avoid, continue, stop, follow up, return, initiate, proceed)
\* or hold one of the imaging words (eeg, mri, ct, x-ray, ultrasound)
non_medication_names == { "follow up", "mri", "await results" }

is_non_medication(name) ==
    \/ \E w \in non_medication_words : Contains(w, Lower(name))
    \/ Lower(name) \in non_medication_names

\* the loop of filter_medication_orders, seen_names being the keys kept so far
RECURSIVE filter_orders_loop(_, _, _)
filter_orders_loop(orders, seen_names, filtered) ==
    IF orders = <<>> THEN filtered
    ELSE LET mo == Head(orders)
             name_key == Strip(Lower(mo.name))
         IN  IF is_placeholder(mo.name) \/ is_non_medication(mo.name) \/ name_key \in seen_names
             THEN filter_orders_loop(Tail(orders), seen_names, filtered)
             ELSE filter_orders_loop(Tail(orders), seen_names \cup { name_key },
                                     Append(filtered, mo))

filter_medication_orders(orders) == filter_orders_loop(orders, {}, <<>>)

filter_referral_orders(orders) ==
    LET keep(ro) == ~is_placeholder(ro.specialty)
        kept == SelectSeq(orders, keep)
    IN  [ i \in DOMAIN kept |->
            IF kept[i].reason # None /\ Lower(kept[i].reason) = "null"
            THEN [ kept[i] EXCEPT !.reason = None ]
            ELSE kept[i] ]

filter_lab_results(lab_results) ==
    LET keep(lr) == ~is_placeholder(lr.value)
    IN  SelectSeq(lab_results, keep)

\* clean_null_strings, one entity list at a time
clean_medications(medications) ==
    [ i \in DOMAIN medications |->
        [ medications[i] EXCEPT !.dose = null_to_none(@),
                                !.frequency = null_to_none(@),
                                !.route = null_to_none(@) ] ]

clean_medication_orders(orders) ==
    [ i \in DOMAIN orders |->
        [ orders[i] EXCEPT !.dose = null_to_none(@),
                           !.frequency = null_to_none(@),
                           !.instructions = null_to_none(@) ] ]

clean_conditions(conditions) ==
    [ i \in DOMAIN conditions |->
        [ conditions[i] EXCEPT !.severity = null_to_none(@),
                               !.status = null_to_none(@) ] ]

clean_vitals(vitals) ==
    [ i \in DOMAIN vitals |-> [ vitals[i] EXCEPT !.unit = null_to_none(@) ] ]

clean_allergies(allergies) ==
    [ i \in DOMAIN allergies |->
        [ allergies[i] EXCEPT !.reaction = null_to_none(@),
                              !.severity = null_to_none(@) ] ]

clean_lab_results(lab_results) ==
    [ i \in DOMAIN lab_results |->
        [ lab_results[i] EXCEPT !.unit = null_to_none(@),
                                !.interpretation = null_to_none(@) ] ]

clean_family_history(family_history) ==
    [ i \in DOMAIN family_history |->
        [ family_history[i] EXCEPT !.age_of_onset = null_to_none(@) ] ]

clean_null_strings(e) ==
    [ e EXCEPT !.medications = clean_medications(@),
               !.medication_orders = clean_medication_orders(@),
               !.conditions = clean_conditions(@),
               !.vitals = clean_vitals(@),
               !.allergies = clean_allergies(@),
               !.lab_results = clean_lab_results(@),
               !.family_history = clean_family_history(@) ]

\* any([sh.tobacco, sh.alcohol, sh.drugs, sh.occupation, sh.living_situation])
has_social_data(sh) ==
    \/ Truthy(sh.tobacco) \/ Truthy(sh.alcohol) \/ Truthy(sh.drugs)
    \/ Truthy(sh.occupation) \/ Truthy(sh.living_situation)

\* a SocialHistory object, or NoSocialHistory for Python's None
NoSocialHistory ==
    [ absent |-> TRUE, tobacco |-> None, alcohol |-> None, drugs |-> None,
      occupation |-> None, living_situation |-> None ]

SocialHistory(tobacco, alcohol, drugs, occupation) ==
    [ absent |-> FALSE, tobacco |-> tobacco, alcohol |-> alcohol, drugs |-> drugs,
      occupation |-> occupation, living_situation |-> None ]

clean_social_history(sh) ==
    LET cleaned == [ sh EXCEPT !.tobacco = null_to_none(@), !.alcohol = null_to_none(@),
                               !.drugs = null_to_none(@), !.occupation = null_to_none(@) ]
    IN  IF sh.absent THEN NoSocialHistory
        ELSE IF has_social_data(cleaned) THEN cleaned
        ELSE NoSocialHistory

-----------------------------------------------------------------------------
(* Text-pattern extractors: family history, social history, dosage, plan *)

FamilyHistory(relationship, condition, age_of_onset) ==
    [ relationship |-> relationship, condition |-> condition, age_of_onset |-> age_of_onset ]

\* the loop over the matches of pattern1 then pattern2 (transcript.fh, each
\* match [relationship, condition, age, pattern]); keys is existing_conditions
RECURSIVE family_history_loop(_, _, _)
family_history_loop(matches, keys, result) ==
    IF matches = <<>> THEN result
    ELSE LET m == Head(matches)
             condition == Strip(m.condition)
             key == << Lower(m.relationship), Lower(condition) >>
             skipped == m.pattern = 2
                        /\ Lower(condition) \in { "", "history", "family", "significant" }
         IN  IF ~skipped /\ key \notin keys /\ ~is_placeholder(m.condition)
             THEN family_history_loop(Tail(matches), keys \cup { key },
                      Append(result, FamilyHistory(Capitalize(Lower(m.relationship)),
                                                   condition, m.age)))
             ELSE family_history_loop(Tail(matches), keys, result)

extract_family_history(t, family_history) ==
    LET valid(fh) == ~is_placeholder(fh.condition) /\ ~is_placeholder(fh.relationship)
        result == SelectSeq(family_history, valid)
        existing_conditions ==
            { << Lower(result[i].relationship), Lower(result[i].condition) >> : i \in DOMAIN result }
    IN  family_history_loop(t.fh, existing_conditions, result)

non_occupation_words == { "smoker", "drinker", "alcoholic", "addict", "user" }

\* the first capture of occupation_patterns (transcript.occupation, None where
\* a pattern does not match) that is neither a non-occupation word nor a placeholder
first_occupation(captures) ==
    LET usable(c) == c # None /\ Lower(Strip(c)) \notin non_occupation_words
                     /\ ~is_placeholder(Strip(c))
        i == FirstIndex([ idx \in DOMAIN captures |-> usable(captures[idx]) ])
    IN  IF i = 0 THEN None ELSE Strip(captures[i])

\* extract_social_history with the is_placeholder tests left out: what the
\* transcript says replaces what the field holds
extract_social_history_overwrite(t, social_history) ==
    LET sh == IF social_history.absent THEN SocialHistory(None, None, None, None)
              ELSE social_history
        occupation == first_occupation(t.occupation)
        filled ==
            [ sh EXCEPT
                !.tobacco = IF t.tobacco # None THEN t.tobacco ELSE @,
                !.alcohol = IF t.alcohol # None THEN t.alcohol ELSE @,
                !.occupation = IF occupation # None THEN occupation ELSE @,
                !.drugs = IF t.drugs # None THEN t.drugs ELSE @ ]
    IN  IF has_social_data(filled) THEN filled ELSE NoSocialHistory

\* returns the SocialHistory object, NoSocialHistory when it holds no data;
\* transcript.tobacco, .alcohol and .drugs are the values of the first
\* matching pattern of each field (None without a match)
extract_social_history(t, social_history) ==
    LET sh == IF social_history.absent THEN SocialHistory(None, None, None, None)
              ELSE social_history
        occupation == first_occupation(t.occupation)
        filled ==
            [ sh EXCEPT
                !.tobacco = IF is_placeholder(@) /\ t.tobacco # None THEN t.tobacco ELSE @,
                !.alcohol = IF is_placeholder(@) /\ t.alcohol # None THEN t.alcohol ELSE @,
                !.occupation = IF is_placeholder(@) /\ occupation # None THEN occupation ELSE @,
                !.drugs = IF is_placeholder(@) /\ t.drugs # None THEN t.drugs ELSE @ ]
    IN  IF has_social_data(filled) THEN filled ELSE NoSocialHistory

\* freq_map of extract_medication_dosages_from_transcript
dose_freq_map(freq) ==
    CASE Lower(freq) = "bid" -> "twice daily"
      [] Lower(freq) = "tid" -> "three times daily"
      [] Lower(freq) = "qid" -> "four times daily"
      [] Lower(freq) = "once" -> "once daily"
      [] Lower(freq) = "twice" -> "twice daily"
      [] Lower(freq) = "three times" -> "three times daily"
      [] Lower(freq) = "four times" -> "four times daily"
      [] OTHER -> freq

\* one medication against the matches of MEDICATION_DOSE_PATTERNS
\* (transcript.doses, in pattern order, each [drug, dose, unit, freq])
fill_dose(med, matches) ==
    LET med_name_lower == Lower(med.name)
        ours(m) == Contains(Lower(m.drug), med_name_lower)
                   \/ Contains(med_name_lower, Lower(m.drug))
        i == FirstIndex([ idx \in DOMAIN matches |-> ours(matches[idx]) ])
    IN  IF Truthy(med.dose) \/ i = 0 THEN med
        ELSE [ med EXCEPT
                 !.dose = matches[i].dose \o " " \o matches[i].unit,
                 !.frequency = IF Truthy(matches[i].freq)
                               THEN dose_freq_map(Strip(matches[i].freq))
                               ELSE @ ]

extract_medication_dosages_from_transcript(medications, t) ==
    [ i \in DOMAIN medications |-> fill_dose(medications[i], t.doses) ]

\* freq_map of extract_plan_medication_orders
plan_freq_map(freq) ==
    CASE Lower(freq) = "bid" -> "twice daily"
      [] Lower(freq) = "tid" -> "three times daily"
      [] Lower(freq) = "qid" -> "four times daily"
      [] Lower(freq) = "daily" -> "once daily"
      [] OTHER -> freq

MedicationOrder(name, dose, frequency, instructions) ==
    [ name |-> name, dose |-> dose, frequency |-> frequency, instructions |-> instructions ]

\* the loop over the matches of plan_med_patterns (each [drug, dose, unit, freq, days])
RECURSIVE plan_loop(_, _, _)
plan_loop(matches, existing_names, new_orders) ==
    IF matches = <<>> THEN new_orders
    ELSE LET m == Head(matches)
             key == Strip(Lower(m.drug))
             order == MedicationOrder(
                          Capitalize(Lower(m.drug)),
                          m.dose \o " " \o m.unit,
                          IF Truthy(m.freq) THEN plan_freq_map(m.freq) ELSE m.freq,
                          IF Truthy(m.days) THEN "for " \o m.days \o " days" ELSE None)
         IN  IF key \in existing_names
             THEN plan_loop(Tail(matches), existing_names, new_orders)
             ELSE plan_loop(Tail(matches), existing_names \cup { key },
                            Append(new_orders, order))

\* transcript.plan is the sequence of matches in the [PLAN] section, and
\* transcript.has_plan tells whether extract_section found the section
extract_plan_medication_orders(t, existing_orders) ==
    LET existing_names == { Strip(Lower(existing_orders[i].name)) : i \in DOMAIN existing_orders }
    IN  IF ~t.has_plan THEN existing_orders
        ELSE plan_loop(t.plan, existing_names, existing_orders)

-----------------------------------------------------------------------------
(* Verified coding lookup: medications *)

\* the keys of the excerpt of RXNORM_DATABASE, in insertion order
RXNORM_KEYS ==
    << "lisinopril", "metformin", "amoxicillin", "augmentin", "vancomycin", "aspirin" >>

\* RXNORM_DATABASE[key]: rxcui, drug_class and the lower-cased brand_names
RXNORM_DATABASE(key) ==
    CASE key = "lisinopril" ->
            [ rxcui |-> "29046", drug_class |-> "ace_inhibitor", brands |-> << "zestril", "prinivil" >> ]
      [] key = "metformin" ->
            [ rxcui |-> "6809", drug_class |-> "diabetes_oral", brands |-> << "glucophage" >> ]
      [] key = "amoxicillin" ->
            [ rxcui |-> "723", drug_class |-> "antibiotic_penicillin", brands |-> << "amoxil" >> ]
      [] key = "augmentin" ->
            [ rxcui |-> "7980", drug_class |-> "antibiotic_penicillin", brands |-> << "augmentin" >> ]
      [] key = "vancomycin" ->
            [ rxcui |-> "11124", drug_class |-> "antibiotic_other", brands |-> << "vancocin" >> ]
      [] key = "aspirin" ->
            [ rxcui |-> "1191", drug_class |-> "antiplatelet", brands |-> << "bayer" >> ]

\* the module-level loop that fills BRAND_TO_GENERIC at import: the
\* <<brand, generic>> pairs in insertion order
RECURSIVE brand_pairs(_)
brand_pairs(keys) ==
    IF keys = <<>> THEN <<>>
    ELSE LET brands == RXNORM_DATABASE(Head(keys)).brands
         IN  [ i \in DOMAIN brands |-> << brands[i], Head(keys) >> ] \o brand_pairs(Tail(keys))

-----------------------------------------------------------------------------
(* Order-diagnosis rule tables (excerpts, in insertion order) *)

\* one (ICD-10, display, confidence) tuple, the confidence in hundredths
Rule(icd10, display, confidence) ==
    [ icd10 |-> icd10, display |-> display, confidence |-> confidence ]

MEDICATION_DIAGNOSIS_RULES ==
    << [ key |-> "statin",
         rules |-> << Rule("E78.5", "Hyperlipidemia, unspecified", 95) >> ],
       [ key |-> "ace_inhibitor",
         rules |-> << Rule("I10", "Essential hypertension", 90),
                      Rule("I50.9", "Heart failure, unspecified", 85),
                      Rule("E11.9", "Type 2 diabetes mellitus without complications", 70) >> ],
       [ key |-> "antibiotic_penicillin",
         rules |-> << Rule("J06.9", "Acute upper respiratory infection, unspecified", 80),
                      Rule("J18.9", "Pneumonia, unspecified organism", 75) >> ] >>

LAB_DIAGNOSIS_RULES ==
    << [ key |-> "bmp",
         rules |-> << Rule("E11.9", "Type 2 diabetes mellitus without complications", 80) >> ],
       [ key |-> "cbc",
         rules |-> << Rule("D64.9", "Anemia, unspecified", 80),
                      Rule("Z23", "Encounter for immunization", 70) >> ],
       [ key |-> "cbc with diff",
         rules |-> << Rule("D64.9", "Anemia, unspecified", 80) >> ] >>

CONSULT_DIAGNOSIS_RULES ==
    << [ key |-> "cardiology",
         rules |-> << Rule("I25.10", "Atherosclerotic heart disease", 80),
                      Rule("I50.9", "Heart failure, unspecified", 80),
                      Rule("I48.91", "Unspecified atrial fibrillation", 80),
                      Rule("I10", "Essential hypertension", 75) >> ],
       [ key |-> "cardiac",
         rules |-> << Rule("I25.10", "Atherosclerotic heart disease", 80) >> ] >>

PROCEDURE_DIAGNOSIS_RULES ==
    << [ key |-> "ecg",
         rules |-> << Rule("I25.10", "Atherosclerotic heart disease", 80),
                      Rule("I48.91", "Unspecified atrial fibrillation", 80),
                      Rule("R00.0", "Tachycardia, unspecified", 75) >> ],
       [ key |-> "ekg",
         rules |-> << Rule("I25.10", "Atherosclerotic heart disease", 80),
                      Rule("I48.91", "Unspecified atrial fibrillation", 80) >> ] >>

\* the module-level tables as they are once the modules are imported
StaticTables ==
    [ ICD10_DATABASE |-> [ k \in Range(ICD10_KEYS) |-> ICD10_DATABASE(k) ],
      SYNONYMS |-> SYNONYMS,
      RXNORM_DATABASE |-> [ k \in Range(RXNORM_KEYS) |-> RXNORM_DATABASE(k) ],
      BRAND_TO_GENERIC |-> brand_pairs(RXNORM_KEYS),
      MEDICATION_DIAGNOSIS_RULES |-> MEDICATION_DIAGNOSIS_RULES,
      LAB_DIAGNOSIS_RULES |-> LAB_DIAGNOSIS_RULES,
      CONSULT_DIAGNOSIS_RULES |-> CONSULT_DIAGNOSIS_RULES,
      PROCEDURE_DIAGNOSIS_RULES |-> PROCEDURE_DIAGNOSIS_RULES ]

\* the dosage and form suffixes that normalize_medication removes
StripDosageAndForm(s) ==
    CASE s = "lisinopril 20 mg daily" -> "lisinopril"
      [] s = "lisinopril tablet" -> "lisinopril"
      [] OTHER -> s

normalize_medication(name) ==
    IF ~Truthy(name) THEN "" ELSE Strip(StripDosageAndForm(Strip(Lower(name))))

\* BRAND_TO_GENERIC[brand], None when the brand is no key
generic_of(brand) ==
    LET hit(p) == p[1] = brand
        i == FirstIndex([ idx \in DOMAIN tables.BRAND_TO_GENERIC |-> hit(tables.BRAND_TO_GENERIC[idx]) ])
    IN  IF i = 0 THEN None ELSE tables.BRAND_TO_GENERIC[i][2]

\* a lookup that would try the fuzzy tier before the brand table
lookup_rxnorm_fuzzy_first(medication_name) ==
    LET normalized == normalize_medication(medication_name)
        best == fuzzy_scan(RXNORM_KEYS, normalized, None, 0)
    IN  IF ~Truthy(medication_name)
        THEN [ code |-> None, confidence |-> 0, matched |-> FALSE ]
        ELSE IF normalized \in DOMAIN tables.RXNORM_DATABASE
        THEN [ code |-> tables.RXNORM_DATABASE[normalized].rxcui, confidence |-> 100,
               matched |-> TRUE ]
        ELSE IF best.key # None
        THEN [ code |-> tables.RXNORM_DATABASE[best.key].rxcui,
               confidence |-> Round2(best.score), matched |-> TRUE ]
        ELSE IF generic_of(normalized) # None
        THEN [ code |-> tables.RXNORM_DATABASE[generic_of(normalized)].rxcui,
               confidence |-> 98, matched |-> TRUE ]
        ELSE [ code |-> None, confidence |-> 0, matched |-> FALSE ]

\* returns [code, confidence, matched], the confidence in hundredths
lookup_rxnorm(medication_name) ==
    LET normalized == normalize_medication(medication_name)
        brands == [ i \in DOMAIN tables.BRAND_TO_GENERIC |-> tables.BRAND_TO_GENERIC[i][1] ]
        generic_best == fuzzy_scan(RXNORM_KEYS, normalized, None, 0)
        best == fuzzy_scan(brands, normalized, generic_best.key, generic_best.score)
        best_generic == IF best.key \in DOMAIN tables.RXNORM_DATABASE
                           /\ best.key = generic_best.key /\ best.score = generic_best.score
                        THEN best.key ELSE generic_of(best.key)
    IN  IF ~Truthy(medication_name)
        THEN [ code |-> None, confidence |-> 0, matched |-> FALSE ]
        ELSE IF normalized \in DOMAIN tables.RXNORM_DATABASE
        THEN [ code |-> tables.RXNORM_DATABASE[normalized].rxcui, confidence |-> 100,
               matched |-> TRUE ]
        ELSE IF generic_of(normalized) # None
        THEN [ code |-> tables.RXNORM_DATABASE[generic_of(normalized)].rxcui,
               confidence |-> 98, matched |-> TRUE ]
        ELSE IF best.key # None
        THEN [ code |-> tables.RXNORM_DATABASE[best_generic].rxcui,
               confidence |-> Round2(best.score), matched |-> TRUE ]
        ELSE [ code |-> None, confidence |-> 0, matched |-> FALSE ]

get_drug_class(medication_name) ==
    LET normalized == normalize_medication(medication_name)
    IN  IF normalized \in DOMAIN tables.RXNORM_DATABASE
        THEN tables.RXNORM_DATABASE[normalized].drug_class
        ELSE IF generic_of(normalized) # None
        THEN tables.RXNORM_DATABASE[generic_of(normalized)].drug_class
        ELSE None

\* setattr(obj, field, value) on a dataclass instance
SetAttr(obj, field, value) ==
    [ f \in DOMAIN obj \cup { field } |-> IF f = field THEN value ELSE obj[f] ]

enrich_medication(med) ==
    LET r == lookup_rxnorm(med.name)
        marked == SetAttr(med, "rxnorm_matched", r.matched)
    IN  IF ~Truthy(med.name) THEN med
        ELSE IF r.code # None /\ r.confidence >= CODE_THRESHOLD /\ "rxnorm" \in DOMAIN med
        THEN IF "confidence" \in DOMAIN med
             THEN [ marked EXCEPT !.rxnorm = r.code, !.confidence = r.confidence ]
             ELSE [ marked EXCEPT !.rxnorm = r.code ]
        ELSE marked

enrich_medications_with_rxnorm(medications) ==
    [ i \in DOMAIN medications |-> enrich_medication(medications[i]) ]

-----------------------------------------------------------------------------
(* Order-diagnosis linking *)

DiagnosisLink(icd10, display, confidence, method) ==
    [ icd10 |-> icd10, display |-> display, confidence |-> confidence, method |-> method ]

\* the "return None" of the link functions
NoLink == [ icd10 |-> None, display |-> None, confidence |-> 0, method |-> None ]

\* table.get(key, [])
rules_get(table, key) ==
    LET hit(e) == e.key = key
        i == FirstIndex([ idx \in DOMAIN table |-> hit(table[idx]) ])
    IN  IF i = 0 THEN <<>> ELSE table[i].rules

\* the exact lookup, then the first key that contains or is contained in the name
find_rules(table, normalized) ==
    LET partial(e) == Contains(e.key, normalized) \/ Contains(normalized, e.key)
        i == FirstIndex([ idx \in DOMAIN table |-> partial(table[idx]) ])
    IN  IF rules_get(table, normalized) # <<>> THEN rules_get(table, normalized)
        ELSE IF i = 0 THEN <<>> ELSE table[i].rules

Min2c(a, b) == IF a < b THEN a ELSE b

\* the double loop shared by the link functions: rules outermost, conditions
\* innermost, the first pair that matches by code or by name returns.
\* patient_conditions holds, per condition, the icd10 and the name the loop
\* reads from it.
match_loop(rules, patient_conditions) ==
    LET code_hit(r, c) == Truthy(c.icd10) /\ c.icd10 = r.icd10
        name_hit(r, c) == Contains(Lower(r.display), Lower(c.name))
                          \/ Contains(Lower(c.name), Lower(r.display))
        pair_hit(r, c) == code_hit(r, c) \/ name_hit(r, c)
        rule_hit(r) == \E j \in DOMAIN patient_conditions : pair_hit(r, patient_conditions[j])
        i == FirstIndex([ idx \in DOMAIN rules |-> rule_hit(rules[idx]) ])
        cond_hit(c) == pair_hit(rules[i], c)
        j == FirstIndex([ idx \in DOMAIN patient_conditions |-> cond_hit(patient_conditions[idx]) ])
    IN  IF i = 0 THEN NoLink
        ELSE IF code_hit(rules[i], patient_conditions[j])
        THEN DiagnosisLink(rules[i].icd10, rules[i].display,
                           Min2c(rules[i].confidence + 5, 100), "patient_condition")
        ELSE DiagnosisLink(rules[i].icd10, rules[i].display,
                           Min2c(rules[i].confidence + 3, 100), "patient_condition")

\* "getattr(c, 'icd10', None) or (...)" for a Condition object
condition_icd10(c) == c.icd10

\* "getattr(c, 'name', None) or ''" for a Condition object
condition_name(c) == IF Truthy(c.name) THEN c.name ELSE ""

_match_against_conditions(rules, patient_conditions) ==
    match_loop(rules, [ j \in DOMAIN patient_conditions |->
                          [ icd10 |-> condition_icd10(patient_conditions[j]),
                            name |-> condition_name(patient_conditions[j]) ] ])

\* In link_medication_to_diagnosis the conditional expression binds last:
\* "(getattr(...) or condition.get(...)) if isinstance(condition, dict) else None",
\* so for a Condition object the code is None and the name is ''.
medication_condition_icd10(c) == None

medication_condition_name(c) == ""

rule_default(rules) ==
    DiagnosisLink(rules[1].icd10, rules[1].display, rules[1].confidence, "rule")

link_medication_to_diagnosis(medication_name, drug_class, patient_conditions) ==
    LET class == IF Truthy(drug_class) THEN drug_class ELSE get_drug_class(medication_name)
        rules == rules_get(tables.MEDICATION_DIAGNOSIS_RULES, class)
        link == match_loop(rules, [ j \in DOMAIN patient_conditions |->
                          [ icd10 |-> medication_condition_icd10(patient_conditions[j]),
                            name |-> medication_condition_name(patient_conditions[j]) ] ])
    IN  IF ~Truthy(class) \/ rules = <<>> THEN NoLink
        ELSE IF link # NoLink THEN link
        ELSE rule_default(rules)

_normalize_name(name) == Strip(Lower(name))

link_by_table(table, name, patient_conditions) ==
    LET rules == find_rules(table, _normalize_name(name))
        link == _match_against_conditions(rules, patient_conditions)
    IN  IF rules = <<>> THEN NoLink
        ELSE IF link # NoLink THEN link
        ELSE rule_default(rules)

link_lab_to_diagnosis(lab_name, patient_conditions) ==
    link_by_table(tables.LAB_DIAGNOSIS_RULES, lab_name, patient_conditions)

link_consult_to_diagnosis(specialty, patient_conditions) ==
    link_by_table(tables.CONSULT_DIAGNOSIS_RULES, specialty, patient_conditions)

link_procedure_to_diagnosis(procedure_name, patient_conditions) ==
    link_by_table(tables.PROCEDURE_DIAGNOSIS_RULES, procedure_name, patient_conditions)

\* hasattr(order, 'linked_diagnosis'); an unset slot holds NoLink
has_slot(order) == "linked_diagnosis" \in DOMAIN order

\* bool(getattr(order, 'linked_diagnosis', None))
has_link(order) == has_slot(order) /\ order.linked_diagnosis # NoLink

\* an assignment that would record a missing link as an empty one
attach_placeholder(order, link) ==
    IF has_link(order) THEN order
    ELSE SetAttr(order, "linked_diagnosis",
                 IF link = NoLink THEN DiagnosisLink("", "", 0, "none") ELSE link)

\* "if link: order.linked_diagnosis = {...}"
attach_link(order, link) ==
    IF has_link(order) \/ link = NoLink THEN order
    ELSE SetAttr(order, "linked_diagnosis", link)

\* one "for order in ..." loop: the orders up to the first one on which the
\* body raises are processed, the rest are left as they were
link_loop(orders, raises, links) ==
    LET k == FirstIndex(raises)
        upto == IF k = 0 THEN Len(orders) ELSE k - 1
    IN  [ orders |-> [ i \in DOMAIN orders |->
                         IF i <= upto THEN attach_link(orders[i], links[i])
                         ELSE orders[i] ],
          raised |-> k # 0 ]

\* "order.linked_diagnosis" on an object without the attribute: AttributeError
medication_order_raises(order) == ~has_slot(order)

\* _normalize_name(None): AttributeError, unless the order is skipped first
name_raises(order) == ~has_link(order) /\ order.name = None

specialty_raises(order) == ~has_link(order) /\ order.specialty = None

\* returns [e, raised]: the entities as the call left them and whether it raised
enrich_orders_with_diagnoses(e) ==
    LET patient_conditions == e.conditions
        med_link(o) == link_medication_to_diagnosis(o.name, get_drug_class(o.name),
                                                    patient_conditions)
        lab_link(o) == link_lab_to_diagnosis(o.name, patient_conditions)
        ref_link(o) == link_consult_to_diagnosis(o.specialty, patient_conditions)
        proc_link(o) == link_procedure_to_diagnosis(o.name, patient_conditions)
        meds == link_loop(e.medication_orders,
                   [ i \in DOMAIN e.medication_orders |-> medication_order_raises(e.medication_orders[i]) ],
                   [ i \in DOMAIN e.medication_orders |-> med_link(e.medication_orders[i]) ])
        labs == link_loop(e.lab_orders,
                   [ i \in DOMAIN e.lab_orders |-> name_raises(e.lab_orders[i]) ],
                   [ i \in DOMAIN e.lab_orders |-> lab_link(e.lab_orders[i]) ])
        refs == link_loop(e.referral_orders,
                   [ i \in DOMAIN e.referral_orders |-> specialty_raises(e.referral_orders[i]) ],
                   [ i \in DOMAIN e.referral_orders |-> ref_link(e.referral_orders[i]) ])
        procs == link_loop(e.procedure_orders,
                   [ i \in DOMAIN e.procedure_orders |-> name_raises(e.procedure_orders[i]) ],
                   [ i \in DOMAIN e.procedure_orders |-> proc_link(e.procedure_orders[i]) ])
        e1 == [ e EXCEPT !.medication_orders = meds.orders ]
        e2 == [ e1 EXCEPT !.lab_orders = labs.orders ]
        e3 == [ e2 EXCEPT !.referral_orders = refs.orders ]
        e4 == [ e3 EXCEPT !.procedure_orders = procs.orders ]
    IN  IF meds.raised THEN [ e |-> e1, raised |-> TRUE ]
        ELSE IF labs.raised THEN [ e |-> e2, raised |-> TRUE ]
        ELSE IF refs.raised THEN [ e |-> e3, raised |-> TRUE ]
        ELSE [ e |-> e4, raised |-> procs.raised ]

-----------------------------------------------------------------------------
(* post_process: the statements of the pipeline, in program order *)

\* the statement groups of post_process, numbered as its comments number them
\* an order of the statement groups that would code the diagnoses before the
\* filters run
StagesCodingFirst ==
    << "ensure_blood_pressure", "detect_resolved", "chief_complaint", "family_history",
       "social_history", "enrich_conditions", "filter", "normalize_vitals",
       "clean_null_strings", "medication_dosages", "plan_medication_orders",
       "clean_social_history" >>

Stages ==
    << "ensure_blood_pressure",      \* 0.   raw_transcript, ensure_blood_pressure_from_transcript
       "detect_resolved",            \* 0.5  detect_resolved_status_from_transcript
       "chief_complaint",            \* 1.   extract_chief_complaint and the flagging loop
       "family_history",             \* 2.   extract_family_history
       "social_history",             \* 3.   extract_social_history
       "normalize_vitals",           \* 4.   normalize_vitals
       "filter",                     \* 5.   the seven filter_* calls
       "clean_null_strings",         \* 5.1  clean_null_strings
       "medication_dosages",         \* 5.5  extract_medication_dosages_from_transcript
       "plan_medication_orders",     \* 5.6  extract_plan_medication_orders
       "clean_social_history",       \* 6.   clean_social_history
       "enrich_conditions" >>        \* 7.   enrich_conditions_with_icd10

\* does the statement group raise on entities e and transcript t
StageRaises(stage, e, t) ==
    CASE stage = "detect_resolved" -> detect_resolved_raises(e.conditions, t)
      [] stage = "chief_complaint" ->
            flag_raises(e.conditions, extract_chief_complaint(t, e.conditions))
      [] OTHER -> FALSE

\* the entities as the statement group leaves them (as far as it got when it raises)
RunStage(stage, e, t) ==
    CASE stage = "ensure_blood_pressure" ->
            [ e EXCEPT !.raw_transcript = t.text,
                       !.vitals = ensure_blood_pressure_from_transcript(@, t) ]
      [] stage = "detect_resolved" ->
            [ e EXCEPT !.conditions = detect_resolved_status_from_transcript(@, t) ]
      [] stage = "chief_complaint" ->
            LET chief_complaint == extract_chief_complaint(t, e.conditions)
            IN  IF ~Truthy(chief_complaint) THEN e
                ELSE IF flag_raises(e.conditions, chief_complaint)
                THEN [ e EXCEPT !.chief_complaint_text = chief_complaint ]
                ELSE [ e EXCEPT !.chief_complaint_text = chief_complaint,
                                !.conditions = flag_chief_complaint(@, chief_complaint) ]
      [] stage = "family_history" ->
            [ e EXCEPT !.family_history = extract_family_history(t, @) ]
      [] stage = "social_history" ->
            LET extracted_sh == extract_social_history(t, e.social_history)
            IN  IF extracted_sh.absent THEN e
                ELSE [ e EXCEPT !.social_history = extracted_sh ]
      [] stage = "normalize_vitals" ->
            [ e EXCEPT !.vitals = normalize_vitals(@, t) ]
      [] stage = "filter" ->
            [ e EXCEPT !.conditions = filter_conditions(@),
                       !.vitals = filter_vitals(@),
                       !.allergies = filter_allergies(@),
                       !.medications = filter_medications(@),
                       !.medication_orders = filter_medication_orders(@),
                       !.referral_orders = filter_referral_orders(@),
                       !.lab_results = filter_lab_results(@) ]
      [] stage = "clean_null_strings" -> clean_null_strings(e)
      [] stage = "medication_dosages" ->
            [ e EXCEPT !.medications = extract_medication_dosages_from_transcript(@, t) ]
      [] stage = "plan_medication_orders" ->
            [ e EXCEPT !.medication_orders = extract_plan_medication_orders(t, @) ]
      [] stage = "clean_social_history" ->
            [ e EXCEPT !.social_history = clean_social_history(@) ]
      [] stage = "enrich_conditions" ->
            [ e EXCEPT !.conditions = enrich_conditions_with_icd10(@) ]

\* the one element of a singleton set
Only(S) == CHOOSE x \in S : TRUE

\* the statements from group k on; returns [e, raised].  Each group works on
\* the entities as the group before it left them.
RECURSIVE run_from(_, _, _)
run_from(k, e, t) ==
    IF k > Len(Stages) THEN [ e |-> e, raised |-> FALSE ]
    ELSE Only({ IF StageRaises(Stages[k], e, t)
                THEN [ e |-> after, raised |-> TRUE ]
                ELSE run_from(k + 1, after, t) :
                after \in { RunStage(Stages[k], e, t) } })

\* returns [e, raised]: the entities object after the call (it is mutated in
\* place, so a caller sees the partial effect of a call that raised)
post_process(entities, t) == run_from(1, entities, t)

-----------------------------------------------------------------------------
(* The entity data model and the inputs of the specifications *)

\* id stands for the identity of the Python object
Condition(id, name, icd10, is_chief_complaint) ==
    [ id |-> id, name |-> name, status |-> "active", severity |-> None,
      icd10 |-> icd10, is_chief_complaint |-> is_chief_complaint, confidence |-> 100 ]

Medication(name, dose, frequency, rxnorm) ==
    [ name |-> name, dose |-> dose, frequency |-> frequency, route |-> None,
      rxnorm |-> rxnorm, confidence |-> 100 ]

LabOrder(name) == [ name |-> name ]

ReferralOrder(specialty, reason) == [ specialty |-> specialty, reason |-> reason ]

ProcedureOrder(name) == [ name |-> name ]

ImagingOrder(name) == [ name |-> name ]

Allergy(substance, reaction, severity) ==
    [ substance |-> substance, reaction |-> reaction, severity |-> severity ]

LabResult(name, value, unit, interpretation) ==
    [ name |-> name, value |-> value, unit |-> unit, interpretation |-> interpretation ]

\* ClinicalEntities(): every list empty, no social history
ClinicalEntities ==
    [ conditions |-> <<>>, vitals |-> <<>>, lab_results |-> <<>>, lab_orders |-> <<>>,
      allergies |-> <<>>, medications |-> <<>>, medication_orders |-> <<>>,
      referral_orders |-> <<>>, procedure_orders |-> <<>>, imaging_orders |-> <<>>,
      family_history |-> <<>>, social_history |-> NoSocialHistory,
      chief_complaint_text |-> None, raw_transcript |-> None ]

\* a transcript in which no pattern of the code matches
NoMatchTranscript(text) ==
    [ text |-> text, bp_matches |-> << None, None, None, None, None >>, resolved |-> {},
      cc_section |-> None, ch_section |-> None,
      ch_with |-> None, subj_section |-> None, subj_presents |-> None, presents |-> None,
      cc_abbrev |-> None, admitted |-> None, followup |-> None, visit |-> None,
      fh |-> <<>>, tobacco |-> None, alcohol |-> None, drugs |-> None,
      occupation |-> <<>>, doses |-> <<>>, has_plan |-> FALSE, plan |-> <<>> ]

\* the transcripts of the model, each given by what the patterns capture from it
Transcripts ==
    { NoMatchTranscript(""),
      [ NoMatchTranscript("[CHIEF COMPLAINT] chest pain") EXCEPT !.cc_section = "chest pain" ],
      [ NoMatchTranscript("Patient presents with cough.") EXCEPT !.presents = "cough" ],
      [ NoMatchTranscript("Resolved pneumonia. BP 120/80.") EXCEPT
            !.resolved = { "pneumonia. bp 120/80" }, !.bp_matches[2] = PairText(120, 80) ],
      [ NoMatchTranscript("Mother had stroke. Never smoker.") EXCEPT
            !.fh = << [ relationship |-> "Mother", condition |-> "stroke", age |-> None,
                        pattern |-> 1 ] >>,
            !.tobacco = "Never smoker" ],
      [ NoMatchTranscript("[SUBJECTIVE] Patient presents with n/a. CC: chest pain.") EXCEPT
            !.subj_section = "Patient presents with n/a. CC: chest pain",
            !.subj_presents = "n/a", !.presents = "n/a", !.cc_abbrev = "chest pain" ],
      [ NoMatchTranscript("blood pressure is 118 over 74") EXCEPT
            !.bp_matches[3] = PairText(118, 74) ],
      [ NoMatchTranscript("130/85 mmHg earlier. BP 118 over 74.") EXCEPT
            !.bp_matches[4] = PairText(118, 74), !.bp_matches[5] = PairText(130, 85) ],
      [ NoMatchTranscript("lisinopril 20mg daily") EXCEPT
            !.doses = << [ drug |-> "lisinopril", dose |-> "20", unit |-> "mg",
                           freq |-> "daily" ] >> ],
      [ NoMatchTranscript("[PLAN] Start lisinopril 10 mg daily.") EXCEPT
            !.has_plan = TRUE,
            !.doses = << [ drug |-> "lisinopril", dose |-> "10", unit |-> "mg",
                           freq |-> "daily" ] >>,
            !.plan = << [ drug |-> "lisinopril", dose |-> "10", unit |-> "mg",
                          freq |-> "daily", days |-> None ] >> ],
      [ NoMatchTranscript("[PLAN] Continue diet 2 g sodium.") EXCEPT
            !.has_plan = TRUE,
            !.doses = << [ drug |-> "diet", dose |-> "2", unit |-> "g", freq |-> None ] >>,
            !.plan = << [ drug |-> "diet", dose |-> "2", unit |-> "g",
                          freq |-> None, days |-> None ] >> ] }

\* the longest list of each kind that a specification starts from
MaxConditions == 2

MaxVitals == 2

MaxOrders == 2

MaxMedications == 2

MaxFindings == 1

MaxFamilyHistory == 2

SeqsUpTo(S, n) == UNION { [ 1..k -> S ] : k \in 0..n }

\* what the upstream extractor may propose for one condition: <<name, icd10, flag>>
ConditionInputs ==
    { << "pneumonia", None, FALSE >>, << "pneumonia", None, TRUE >>,
      << "cough", None, FALSE >>, << "angina", None, FALSE >>,
      << "null", None, FALSE >>, << None, None, FALSE >>,
      << "xyzzy", "Z99.9", FALSE >>, << "Hypertension", "Z99.9", TRUE >>,
      << "hypertenson", None, FALSE >>, << "tendinitis", None, TRUE >>,
      << "Type 2 Diabetes Mellitus", None, FALSE >>, << "sugar diabetes", "E10.9", FALSE >>,
      << "diabetes mellitus today", None, FALSE >>,
      << "acute kidney injury", None, FALSE >> }

ConditionLists ==
    { [ i \in DOMAIN s |-> Condition(i, s[i][1], s[i][2], s[i][3]) ] :
        s \in SeqsUpTo(ConditionInputs, MaxConditions) }

\* the coded Conditions of a patient for whom a referral is ordered
PatientConditionInputs ==
    { << "atrial fibrillation", "I48.91", FALSE >>, << "atrial fibrillation", None, FALSE >>,
      << "Hypertension", "I10", FALSE >>, << "xyzzy", "Z99.9", FALSE >> }

\* a cardiology referral next to the patient's Conditions
ReferralGraphs ==
    { [ ClinicalEntities EXCEPT
          !.conditions = [ i \in DOMAIN s |-> Condition(i, s[i][1], s[i][2], s[i][3]) ],
          !.referral_orders = << ReferralOrder("cardiology", "hypertension") >> ] :
        s \in SeqsUpTo(PatientConditionInputs, MaxConditions) }

\* a medication order next to the patient's Conditions
MedicationGraphs ==
    { [ ClinicalEntities EXCEPT
          !.conditions = [ i \in DOMAIN s |-> Condition(i, s[i][1], s[i][2], s[i][3]) ],
          !.medication_orders = << MedicationOrder("Lisinopril", "10 mg", "daily", None) >> ] :
        s \in SeqsUpTo(PatientConditionInputs, MaxConditions) }

VitalInputs ==
    { Vital("", PairText(120, 80), "mmHg"), Vital("", PairText(130, 85), "mmHg"),
      Vital("", "142", "mmHg"), Vital(None, "88", "mmHg"),
      Vital("heart_rate", "72", "bpm"), Vital("blood_pressure", "118", None),
      Vital("temperature", "100", "N/A"), Vital("weight", "null", "lbs") }

\* a systolic and a diastolic reading proposed as two vitals
SplitPairInputs ==
    { << Vital("", "142", "mmHg"), Vital(None, "88", "mmHg") >>,
      << Vital(None, "88", "mmHg"), Vital("", "142", "mmHg") >> }

\* what may be proposed next to a split pair
ExtraVitalInputs ==
    { Vital(None, "30", "mmHg"), Vital("heart_rate", "72", "bpm"),
      Vital("blood_pressure", "118", None), Vital("temperature", "100", "N/A"),
      Vital("", "120", "mmHg") }

\* a split pair with one more vital before or after it
SplitVitalLists ==
    { << x >> \o pair : pair \in SplitPairInputs, x \in ExtraVitalInputs }
    \cup { pair \o << x >> : pair \in SplitPairInputs, x \in ExtraVitalInputs }

MedicationOrderInputs ==
    { MedicationOrder("Lisinopril", "10 mg", "daily", None),
      MedicationOrder(" lisinopril", None, " null", "NULL"),
      MedicationOrder("low salt diet", None, None, None),
      MedicationOrder("amoxicillin", "unspecified", None, "n/a"),
      MedicationOrder("N/A", None, None, None) }

LabOrderInputs == { LabOrder("CBC"), LabOrder("cbc "), LabOrder("n/a"), LabOrder(None) }

ReferralOrderInputs ==
    { ReferralOrder("Cardiology", "null"), ReferralOrder("cardiology", "hypertension"),
      ReferralOrder("null", None), ReferralOrder(None, None) }

ProcedureOrderInputs == { ProcedureOrder("EKG"), ProcedureOrder("ekg"), ProcedureOrder("unknown") }

ImagingOrderInputs == { ImagingOrder("mri"), ImagingOrder("not specified") }

MedicationInputs ==
    { Medication("aspirin", "unspecified", None, None),
      Medication("Lisinopril", None, " null", "999"),
      Medication("lisinoprill", "null", None, None),
      Medication("zestril", "10 mg", "daily", None),
      Medication("foobarium", "10 mg", "NULL", "999"),
      Medication("none", None, None, None),
      Medication("vancocin", None, None, None),
      Medication("augmentin", "10 mg", None, None) }

AllergyInputs == { Allergy("penicillin", "N/A", "null"), Allergy("unknown", None, None) }

LabResultInputs ==
    { LabResult("glucose", "100", "not specified", "null"),
      LabResult("glucose", "null", None, None) }

FamilyHistoryInputs ==
    { FamilyHistory("Mother", "Stroke", "unknown"), FamilyHistory("n/a", "stroke", None) }

SocialHistoryInputs ==
    { NoSocialHistory, SocialHistory("null", "Unknown", None, None),
      SocialHistory("Never smoker", None, "null", "n/a"),
      SocialHistory("Former smoker", "null", None, None) }

\* the entity graphs a specification starts from: one list of a fresh
\* ClinicalEntities filled by the upstream extractor
InputGraphs ==
    { [ ClinicalEntities EXCEPT !.conditions = c ] : c \in ConditionLists }
    \cup { [ ClinicalEntities EXCEPT !.vitals = v ] : v \in SeqsUpTo(VitalInputs, MaxVitals) }
    \cup { [ ClinicalEntities EXCEPT !.vitals = v ] : v \in SplitVitalLists }
    \cup { [ ClinicalEntities EXCEPT !.medication_orders = o ] :
             o \in SeqsUpTo(MedicationOrderInputs, MaxOrders) }
    \cup { [ ClinicalEntities EXCEPT !.lab_orders = o ] : o \in SeqsUpTo(LabOrderInputs, MaxOrders) }
    \cup { [ ClinicalEntities EXCEPT !.referral_orders = o ] :
             o \in SeqsUpTo(ReferralOrderInputs, MaxOrders) }
    \cup ReferralGraphs
    \cup MedicationGraphs
    \cup { [ ClinicalEntities EXCEPT !.procedure_orders = o ] :
             o \in SeqsUpTo(ProcedureOrderInputs, MaxOrders) }
    \cup { [ ClinicalEntities EXCEPT !.imaging_orders = o ] :
             o \in SeqsUpTo(ImagingOrderInputs, MaxOrders) }
    \cup { [ ClinicalEntities EXCEPT !.medications = m ] :
             m \in SeqsUpTo(MedicationInputs, MaxMedications) }
    \cup { [ ClinicalEntities EXCEPT !.family_history = f ] :
             f \in SeqsUpTo(FamilyHistoryInputs, MaxFamilyHistory) }
    \cup { [ ClinicalEntities EXCEPT !.allergies = a, !.lab_results = l,
                                     !.family_history = f, !.social_history = sh ] :
             a \in SeqsUpTo(AllergyInputs, MaxFindings),
             l \in SeqsUpTo(LabResultInputs, MaxFindings),
             f \in SeqsUpTo(FamilyHistoryInputs, MaxFindings),
             sh \in SocialHistoryInputs }

-----------------------------------------------------------------------------
(* One caller: the calls made on one entity graph *)

\* a lookup that would remember a fuzzy match by adding it to SYNONYMS
TablesWithLookupCache(t) ==
    [ t EXCEPT !.SYNONYMS = @ \cup { << "hypertenson", "hypertension" >> } ]

\* the module-level tables after a call: no statement of post_processor,
\* icd10_lookup, rxnorm_lookup or order_diagnosis_linker assigns to them
\* once the modules are imported
TablesAfterCall(t) == t

\* the extractor has parsed the model response into g; nothing was called yet
Init ==
    /\ g \in InputGraphs
    /\ transcript \in Transcripts
    /\ g_in = g
    /\ g_once = g
    /\ pc = "parsed"
    /\ raised = FALSE
    /\ req = <<>>
    /\ tables = StaticTables

\* MedGemmaClient.extract: post_process on the parsed entities
Extract ==
    /\ pc = "parsed"
    /\ \E r \in { post_process(g, transcript) } :
           /\ g' = r.e
           /\ g_once' = r.e
           /\ raised' = r.raised
    /\ pc' = "extracted"
    /\ tables' = TablesAfterCall(tables)
    /\ UNCHANGED <<g_in, transcript, req>>

\* the request handler of server.py: post_process again on what extract returned
Handler ==
    /\ pc = "extracted"
    /\ ~raised
    /\ \E r \in { post_process(g, transcript) } :
           /\ g' = r.e
           /\ raised' = r.raised
    /\ pc' = "handled"
    /\ tables' = TablesAfterCall(tables)
    /\ UNCHANGED <<g_in, g_once, transcript, req>>

\* a caller of the package runs enrich_medications_with_rxnorm on the medications
EnrichMedications ==
    /\ pc \in { "parsed", "handled" }
    /\ ~raised
    /\ g' = [ g EXCEPT !.medications = enrich_medications_with_rxnorm(@) ]
    /\ pc' = "medications_coded"
    /\ tables' = TablesAfterCall(tables)
    /\ UNCHANGED <<g_in, g_once, transcript, raised, req>>

\* a caller of the package runs enrich_orders_with_diagnoses on the entities
EnrichOrders ==
    /\ pc \in { "parsed", "handled", "medications_coded" }
    /\ ~raised
    /\ \E r \in { enrich_orders_with_diagnoses(g) } :
           /\ g' = r.e
           /\ raised' = r.raised
    /\ pc' = "orders_linked"
    /\ tables' = TablesAfterCall(tables)
    /\ UNCHANGED <<g_in, g_once, transcript, req>>

\* a caller of the package runs normalize_vitals on the parsed vitals
NormalizeVitals ==
    /\ pc = "parsed"
    /\ g' = [ g EXCEPT !.vitals = normalize_vitals(@, transcript) ]
    /\ pc' = "vitals_normalized"
    /\ tables' = TablesAfterCall(tables)
    /\ UNCHANGED <<g_in, g_once, transcript, raised, req>>

\* a caller of the package links each parsed medication order to a diagnosis
\* with link_medication_to_diagnosis and keeps the link on the order
LinkMedications ==
    /\ pc = "parsed"
    /\ g.medication_orders # <<>>
    /\ g' = [ g EXCEPT !.medication_orders =
                 [ i \in DOMAIN @ |->
                     SetAttr(@[i], "linked_diagnosis",
                             link_medication_to_diagnosis(@[i].name, None, g.conditions)) ] ]
    /\ pc' = "medications_linked"
    /\ tables' = TablesAfterCall(tables)
    /\ UNCHANGED <<g_in, g_once, transcript, raised, req>>

Next ==
    \/ Extract \/ Handler \/ EnrichMedications \/ EnrichOrders \/ NormalizeVitals
    \/ LinkMedications

Spec == Init /\ [][Next]_vars

-----------------------------------------------------------------------------
(* The service: concurrent requests, each running the pipeline on its own graph *)

NumRequests == 2

RequestIds == 1..NumRequests

\* Step 3.6 of the request handler: the blood pressure read directly from the
\* transcript replaces partial readings and is put in front
direct_blood_pressure(vitals, t) ==
    LET mmhg(v) == Truthy(v.unit) /\ Lower(v.unit) \in { "mmhg", "mm hg" }
        partial(v) == mmhg(v) /\ ~HasSlash(v.value)
        first_of(i) == \A j \in 1..(i - 1) : ~(mmhg(vitals[j]) /\ vitals[j].value = vitals[i].value)
        kept == { i \in DOMAIN vitals :
                    ~partial(vitals[i]) /\ (mmhg(vitals[i]) => first_of(i)) }
        cleaned == [ n \in 1..Cardinality(kept) |->
                       vitals[CHOOSE i \in kept : Cardinality({ j \in kept : j <= i }) = n] ]
        seen_bp == { vitals[i].value : i \in { j \in kept : mmhg(vitals[j]) } }
        \* the handler's own bp_patterns: the first four of the five
        m == FirstIndex([ idx \in 1..4 |-> t.bp_matches[idx] # None ])
    IN  IF m = 0 THEN vitals
        ELSE IF t.bp_matches[m] \in seen_bp THEN cleaned
        ELSE << Vital("blood_pressure", t.bp_matches[m], "mmHg") >> \o cleaned

\* FHIRTransformer._create_observation_from_lab: the status, the name, the
\* value (valueQuantity when float() parses it, else valueString) and the
\* interpretation code of the Observation
_create_observation_from_lab(lab) ==
    LET lab_status == IF "status" \in DOMAIN lab /\ Truthy(lab.status)
                      THEN lab.status ELSE "completed"
        parses == lab.value \in { "100", "72", "7.2" }
        has_value == Truthy(lab.value) /\ Lower(lab.value) # "null"
        interpretation_map(s) ==
            CASE Lower(s) = "normal" -> "N"
              [] Lower(s) = "high" -> "H"
              [] Lower(s) = "low" -> "L"
              [] Lower(s) = "critical" -> "AA"
              [] OTHER -> None
    IN  [ resourceType |-> "Observation",
          status |-> IF lab_status = "pending" THEN "registered" ELSE "final",
          text |-> IF Truthy(lab.name) THEN lab.name ELSE "unspecified lab",
          valueQuantity |-> IF has_value /\ parses THEN lab.value ELSE None,
          valueString |-> IF has_value /\ ~parses THEN lab.value ELSE None,
          interpretation |-> IF Truthy(lab.interpretation)
                             THEN interpretation_map(lab.interpretation) ELSE None ]

\* FHIRTransformer._create_service_request_for_lab
_create_service_request_for_lab(lab_order) ==
    [ resourceType |-> "ServiceRequest",
      status |-> "active",
      intent |-> "order",
      text |-> IF Truthy(lab_order.name) THEN lab_order.name ELSE "unspecified lab order" ]

\* FHIRTransformer.transform: the entries of the bundle made from the lab
\* results and the lab orders, in the order they are appended
transform(entities) ==
    [ i \in DOMAIN entities.lab_results |->
        _create_observation_from_lab(entities.lab_results[i]) ]
    \o [ i \in DOMAIN entities.lab_orders |->
           _create_service_request_for_lab(entities.lab_orders[i]) ]

\* what the extractor parsed for a request, with the transcript it came from
ServiceInputs ==
    << [ e |-> [ ClinicalEntities EXCEPT
                  !.conditions = << Condition(1, "pneumonia", None, TRUE),
                                    Condition(2, "cough", "Z99.9", FALSE) >>,
                  !.medications = << Medication("Lisinopril", None, None, None) >>,
                  !.lab_results = << LabResult("glucose", "100", None, "high") >>,
                  !.lab_orders = << LabOrder("CBC") >>,
                  !.referral_orders = << ReferralOrder("Cardiology", None) >> ],
        t |-> [ NoMatchTranscript("Patient presents with cough.") EXCEPT !.presents = "cough" ] ],
      [ e |-> [ ClinicalEntities EXCEPT
                  !.conditions = << Condition(1, "Hypertension", None, FALSE),
                                    Condition(2, None, None, FALSE) >>,
                  !.vitals = << Vital("", "142", "mmHg"), Vital("", "88", "mmHg") >> ],
        t |-> [ NoMatchTranscript("Resolved pneumonia. BP 120/80.") EXCEPT
                  !.resolved = { "pneumonia. bp 120/80" }, !.bp_matches[2] = PairText(120, 80) ] ],
      [ e |-> [ ClinicalEntities EXCEPT
                  !.conditions = << Condition(1, "null", None, TRUE),
                                    Condition(2, "angina", None, FALSE) >>,
                  !.vitals = << Vital("", "142", "mmHg"), Vital("", "88", "mmHg") >>,
                  !.medication_orders = << MedicationOrder("Lisinopril", "null", None, None) >> ],
        t |-> [ NoMatchTranscript("[CHIEF COMPLAINT] chest pain") EXCEPT
                  !.cc_section = "chest pain" ] ] >>

\* a request whose extractor has parsed the model response; alone holds
\* what the two post_process calls of the request return when no other
\* request runs
NewRequest(in) ==
    [ input |-> in.e, t |-> in.t, e |-> in.e, call |-> "extract", k |-> 1,
      log |-> <<>>, once |-> in.e, twice |-> in.e, bundle |-> <<>>,
      alone |-> Only({ << first, post_process(first.e, in.t) >> :
                       first \in { post_process(in.e, in.t) } }) ]

\* the requests are numbered in the order of their inputs
InitService ==
    /\ tables = StaticTables
    /\ \E choice \in [ RequestIds -> DOMAIN ServiceInputs ] :
           /\ \A a, b \in RequestIds : a < b => choice[a] <= choice[b]
           /\ req = [ id \in RequestIds |-> NewRequest(ServiceInputs[choice[id]]) ]
    /\ g = ClinicalEntities
    /\ g_in = g
    /\ g_once = g
    /\ transcript = NoMatchTranscript("")
    /\ pc = "service"
    /\ raised = FALSE

\* the request as its running post_process call leaves it after the next
\* statement group: the call raises, moves on, or returns to its caller
AfterStage(r, after, raises) ==
    LET logged == [ r EXCEPT !.e = after, !.log = Append(@, Stages[r.k]) ]
    IN  IF raises THEN [ logged EXCEPT !.call = "failed" ]
        ELSE IF r.k < Len(Stages) THEN [ logged EXCEPT !.k = @ + 1 ]
        ELSE IF r.call = "extract"
        THEN [ logged EXCEPT !.call = "handler", !.k = 1, !.once = after, !.log = <<>> ]
        ELSE [ logged EXCEPT !.call = "post_processed", !.twice = after ]

\* request id runs the next statement group of its post_process call
\* (first inside MedGemmaClient.extract, then in the request handler)
StageStep(id) ==
    /\ req[id].call \in { "extract", "handler" }
    /\ \E after \in { RunStage(Stages[req[id].k], req[id].e, req[id].t) } :
           req' = [ req EXCEPT ![id] =
                      AfterStage(@, after, StageRaises(Stages[@.k], @.e, @.t)) ]
    /\ tables' = TablesAfterCall(tables)
    /\ UNCHANGED <<g, g_in, g_once, transcript, pc, raised>>

\* the handler of request id passes Step 3.6 and hands the graph to the mapper
Transform(id) ==
    /\ req[id].call = "post_processed"
    /\ req' = [ req EXCEPT ![id].call = "mapped",
                           ![id].e.vitals = direct_blood_pressure(@, req[id].t),
                           ![id].bundle = transform(req[id].e) ]
    /\ UNCHANGED <<g, g_in, g_once, transcript, pc, raised, tables>>

NextService == \E id \in RequestIds : StageStep(id) \/ Transform(id)

SpecService == InitService /\ [][NextService]_vars

-----------------------------------------------------------------------------
(* Properties of one caller's calls *)

\* a post_process call has returned normally to the caller
Returned == pc \in { "extracted", "handled" } /\ ~raised

\* a text field is absent or holds real content
RealOrAbsent(value) == value = None \/ ~is_placeholder(value)

\* the text fields of a record r among the fields named in fields
FieldsOf(r, fields) == { r[f] : f \in fields \cap DOMAIN r }

\* every text field of every entity of e
TextFields(e) ==
    UNION ( { FieldsOf(e.conditions[i], { "name", "status", "severity", "icd10" }) :
                i \in DOMAIN e.conditions }
       \cup { FieldsOf(e.vitals[i], { "type", "value", "unit" }) : i \in DOMAIN e.vitals }
       \cup { FieldsOf(e.lab_results[i], { "name", "value", "unit", "interpretation" }) :
                i \in DOMAIN e.lab_results }
       \cup { FieldsOf(e.allergies[i], { "substance", "reaction", "severity" }) :
                i \in DOMAIN e.allergies }
       \cup { FieldsOf(e.medications[i], { "name", "dose", "frequency", "route", "rxnorm" }) :
                i \in DOMAIN e.medications }
       \cup { FieldsOf(e.medication_orders[i], { "name", "dose", "frequency", "instructions" }) :
                i \in DOMAIN e.medication_orders }
       \cup { FieldsOf(e.lab_orders[i], { "name" }) : i \in DOMAIN e.lab_orders }
       \cup { FieldsOf(e.referral_orders[i], { "specialty", "reason" }) :
                i \in DOMAIN e.referral_orders }
       \cup { FieldsOf(e.procedure_orders[i], { "name" }) : i \in DOMAIN e.procedure_orders }
       \cup { FieldsOf(e.imaging_orders[i], { "name" }) : i \in DOMAIN e.imaging_orders }
       \cup { FieldsOf(e.family_history[i], { "relationship", "condition", "age_of_onset" }) :
                i \in DOMAIN e.family_history }
       \cup { FieldsOf(e.social_history, { "tobacco", "alcohol", "drugs", "occupation" }) } )

\* C1: after post_process has returned, no text field of a surviving entity
\* holds a placeholder token: each is real content or absent
C1_NoPlaceholderSurvives ==
    Returned => \A value \in TextFields(g) : RealOrAbsent(value)

\* the vitals of kind blood pressure
BloodPressures(vitals) == { i \in DOMAIN vitals : vitals[i].type = "blood_pressure" }

\* C2: after post_process has returned, the vitals hold at most one blood
\* pressure, and its value has the form digits/digits
C2_OneCompositeBloodPressure ==
    Returned =>
        /\ Cardinality(BloodPressures(g.vitals)) <= 1
        /\ \A i \in BloodPressures(g.vitals) : IsPairText(g.vitals[i].value)

\* the code the lookup alone assigns: the table code at confidence 0.85 or
\* more, no code below
CodeByLookup(r) == IF r.code # None /\ r.confidence >= CODE_THRESHOLD THEN r.code ELSE None

\* C3: after the reference-coding stage the diagnosis code of every condition
\* and the medication code of every medication is the one the lookup alone
\* assigns, whatever the extractor proposed
C3_CodeByLookupAlone ==
    /\ Returned =>
          \A i \in DOMAIN g.conditions :
              g.conditions[i].icd10 = CodeByLookup(lookup_icd10(g.conditions[i].name))
    /\ pc = "medications_coded" =>
          \A i \in DOMAIN g.medications :
              g.medications[i].rxnorm = CodeByLookup(lookup_rxnorm(g.medications[i].name))

\* the normalized names of an order list (the specialty for a referral)
OrderKeys(orders) ==
    [ i \in DOMAIN orders |->
        IF "specialty" \in DOMAIN orders[i] THEN _normalize_name(orders[i].specialty)
        ELSE _normalize_name(orders[i].name) ]

NoDuplicates(keys) == \A i, j \in DOMAIN keys : keys[i] = keys[j] => i = j

\* a is b with some entries left out
IsSubSeq(a, b) ==
    \E f \in [ DOMAIN a -> DOMAIN b ] :
        /\ \A i, j \in DOMAIN a : i < j => f[i] < f[j]
        /\ \A i \in DOMAIN a : a[i] = b[f[i]]

\* C4: after post_process has returned, no order list holds two entries of the
\* same lower-cased, trimmed name, and the entries that survive from the
\* input keep the order of their first occurrence
C4_OrdersDeduplicated ==
    Returned =>
        /\ NoDuplicates(OrderKeys(g.medication_orders))
        /\ NoDuplicates(OrderKeys(g.lab_orders))
        /\ NoDuplicates(OrderKeys(g.referral_orders))
        /\ NoDuplicates(OrderKeys(g.procedure_orders))
        /\ NoDuplicates(OrderKeys(g.imaging_orders))
        /\ IsSubSeq(OrderKeys(g.lab_orders), OrderKeys(g_in.lab_orders))
        /\ IsSubSeq(OrderKeys(g.referral_orders), OrderKeys(g_in.referral_orders))
        /\ IsSubSeq(OrderKeys(g.procedure_orders), OrderKeys(g_in.procedure_orders))
        /\ IsSubSeq(OrderKeys(g.imaging_orders), OrderKeys(g_in.imaging_orders))

Flagged(conditions) == { i \in DOMAIN conditions : conditions[i].is_chief_complaint }

\* C5: after post_process has returned, at most one condition carries the
\* chief-complaint flag
C5_OneChiefComplaint == Returned => Cardinality(Flagged(g.conditions)) <= 1

\* C6: the second post_process call (the request handler's) returns the graph
\* the first call (the extraction client's) returned, unchanged
C6_Idempotent == (pc = "handled" /\ ~raised) => g = g_once

\* C7: no call of post_process or of the order-linking pass ends with an
\* exception
C7_NeverRaises == ~raised

\* the identity and name of each condition, in list order
ConditionIds(conditions) ==
    [ i \in DOMAIN conditions |-> << conditions[i].id, conditions[i].name >> ]

\* C9: whether post_process returned or raised, the conditions of the graph
\* are a sub-list of the conditions the first call was given
C9_NoConditionInvented ==
    pc \in { "extracted", "handled" } =>
        IsSubSeq(ConditionIds(g.conditions), ConditionIds(g_in.conditions))

\* a complaint was resolved that names no condition of the graph, and the
\* filter dropped a condition
C9_Witness ==
    /\ Returned
    /\ Truthy(g.chief_complaint_text)
    /\ g.conditions # <<>>
    /\ \A i \in DOMAIN g.conditions :
           Lower(g.conditions[i].name) # Lower(g.chief_complaint_text)
    /\ Len(g.conditions) < Len(g_in.conditions)

\* the first post_process call has returned normally
ReturnedOnce == pc = "extracted" /\ ~raised

\* the first entry of a list of strategy results that is real content, None
\* when no entry is
FirstReal(results) ==
    LET real == [ i \in DOMAIN results |-> results[i] # None /\ ~is_placeholder(results[i]) ]
    IN  IF FirstIndex(real) = 0 THEN None ELSE results[FirstIndex(real)]

\* C11: the complaint text post_process stores is the result of the first of
\* the nine strategies, in the listed order, whose result is no placeholder;
\* an empty or placeholder result never wins and never stops the chain
C11_FirstRealStrategyWins ==
    ReturnedOnce =>
        g.chief_complaint_text = FirstReal(strategy_results(transcript, g_in.conditions))

\* the substrings that mark a proposed complaint as a diagnosis label
DiagnosisSounding ==
    { "itis", "pneumonia", "diabetes", "syndrome", "failure", "infarction",
      "fibrillation", "embolism", "mellitus", "carcinoma", "insufficiency", "ischemia" }

\* the stored complaint text is the extractor's own proposal: strategies 1
\* to 8 all fell through and the fallback strategy gave the text
FromFallback ==
    /\ ReturnedOnce
    /\ g.chief_complaint_text # None
    /\ \A i \in 1..8 : strategy_results(transcript, g_in.conditions)[i] = None

\* C12: a complaint text taken from the extractor's own proposal holds none of
\* the diagnosis-sounding substrings
C12_FallbackRejectsDiagnoses ==
    FromFallback =>
        \A d \in DiagnosisSounding : ~Contains(d, Lower(g.chief_complaint_text))

\* the index of the condition the resolved complaint designates: the first
\* one named like the text, else the first of the list
Designated(conditions, text) ==
    LET named == [ i \in DOMAIN conditions |->
                     conditions[i].name # None /\ Lower(conditions[i].name) = Lower(text) ]
    IN  IF FirstIndex(named) # 0 THEN FirstIndex(named) ELSE 1

\* C13: when post_process has resolved a complaint text and returns at least
\* one condition, the returned condition named like the text, or else the
\* first returned condition, carries the chief-complaint flag
C13_DesignatedConditionFlagged ==
    (ReturnedOnce /\ g.chief_complaint_text # None /\ g.conditions # <<>>) =>
        g.conditions[Designated(g.conditions, g.chief_complaint_text)].is_chief_complaint

\* the vitals that merge_split_blood_pressure counts as blood-pressure
\* components
Components(vitals) == SelectSeq(vitals, IsBPComponent)

\* no value holds a separator and exactly two components lie 20 to 120 apart
IsSplitPair(vitals) ==
    /\ \A i \in DOMAIN vitals : ~HasSlash(value_str(vitals[i]))
    /\ Len(Components(vitals)) = 2
    /\ LET a == ToNumber(value_str(Components(vitals)[1]))
           b == ToNumber(value_str(Components(vitals)[2]))
       IN  20 <= Max2(a, b) - Min2(a, b) /\ Max2(a, b) - Min2(a, b) <= 120

\* 'larger/smaller' of the two components
MergedText(vitals) ==
    LET a == ToNumber(value_str(Components(vitals)[1]))
        b == ToNumber(value_str(Components(vitals)[2]))
    IN  PairText(Max2(a, b), Min2(a, b))

\* a vital that is neither a component nor typed blood pressure
IsNonBP(v) == ~IsBPComponent(v) /\ type_lower(v) \notin { "blood_pressure", "bp" }

ValuesOf(vitals) == [ i \in DOMAIN vitals |-> vitals[i].value ]

\* C14: normalize_vitals on vitals that hold a split pair returns one
\* blood-pressure vital valued 'larger/smaller' and keeps, in order, every
\* vital that is not a blood-pressure vital
C14_SplitPairMerged ==
    (pc = "vitals_normalized" /\ IsSplitPair(g_in.vitals)) =>
        /\ Cardinality(BloodPressures(g.vitals)) = 1
        /\ \A i \in BloodPressures(g.vitals) : g.vitals[i].value = MergedText(g_in.vitals)
        /\ ValuesOf(SelectSeq(g.vitals, IsNonBP)) = ValuesOf(SelectSeq(g_in.vitals, IsNonBP))

\* the pair captured by the first of the ordered blood-pressure patterns
\* that matches the transcript, None when none matches
FirstMatch(t) ==
    IF \A i \in DOMAIN t.bp_matches : t.bp_matches[i] = None THEN None
    ELSE t.bp_matches[CHOOSE i \in DOMAIN t.bp_matches :
                        /\ t.bp_matches[i] # None
                        /\ \A j \in 1..(i - 1) : t.bp_matches[j] = None]

\* neither a value with a separator nor a split pair is among the vitals, so
\* the consolidation falls to the transcript re-scan
RescanApplies(vitals) ==
    /\ \A i \in DOMAIN vitals : ~HasSlash(value_str(vitals[i]))
    /\ ~IsSplitPair(vitals)

\* a vital that reads like a blood pressure: typed so, or a component
IsBPLike(v) == type_lower(v) \in { "blood_pressure", "bp" } \/ IsBPComponent(v)

\* C15: when the re-scan applies and a pattern matches, post_process returns
\* exactly one blood-pressure vital, valued the pair of the first matching
\* pattern, and no other blood-pressure-like vital
C15_TranscriptPairAuthoritative ==
    (ReturnedOnce /\ RescanApplies(g_in.vitals) /\ FirstMatch(transcript) # None) =>
        /\ Cardinality(BloodPressures(g.vitals)) = 1
        /\ \A i \in DOMAIN g.vitals :
               (IsBPLike(g.vitals[i]) \/ HasSlash(value_str(g.vitals[i]))) =>
                   /\ g.vitals[i].type = "blood_pressure"
                   /\ g.vitals[i].value = FirstMatch(transcript)

\* a partial blood-pressure reading was proposed, two patterns match with
\* different pairs, and the call returned
C15_Witness ==
    /\ ReturnedOnce
    /\ RescanApplies(g_in.vitals)
    /\ \E i \in DOMAIN g_in.vitals : IsBPLike(g_in.vitals[i])
    /\ transcript.bp_matches[4] # None
    /\ transcript.bp_matches[5] # None
    /\ transcript.bp_matches[4] # transcript.bp_matches[5]
    /\ \E i \in DOMAIN g.vitals : g.vitals[i].value = transcript.bp_matches[4]

\* the proposed values that already hold a separator
SeparatorValues(vitals) ==
    { value_str(vitals[i]) : i \in { j \in DOMAIN vitals : HasSlash(value_str(vitals[j])) } }

\* the vitals hold one blood pressure, of one of the values, and no other
\* blood-pressure-like vital
OnlyBloodPressure(vitals, values) ==
    /\ Cardinality(BloodPressures(vitals)) = 1
    /\ \A i \in DOMAIN vitals :
           (IsBPLike(vitals[i]) \/ HasSlash(value_str(vitals[i]))) =>
               /\ vitals[i].type = "blood_pressure"
               /\ vitals[i].value \in values

\* C20: the consolidation rules apply in order: a proposed value with a
\* separator is the blood pressure post_process returns, and the other
\* blood-pressure-like vitals are gone; without such a value a split pair is
\* merged into it; the transcript decides the value only when neither applied
C20_RulesInOrder ==
    ReturnedOnce =>
        /\ SeparatorValues(g_in.vitals) # {} =>
               OnlyBloodPressure(g.vitals, SeparatorValues(g_in.vitals))
        /\ IsSplitPair(g_in.vitals) =>
               OnlyBloodPressure(g.vitals, { MergedText(g_in.vitals) })

\* more than two scalar candidates are proposed and no pattern matches the
\* transcript
Ambiguous(vitals, t) == Len(Components(vitals)) > 2 /\ FirstMatch(t) = None

\* every candidate of the proposed vitals is still among the returned ones,
\* and no merged pair was made
CandidatesKept(returned, proposed) ==
    /\ \A i \in DOMAIN proposed :
           IsBPComponent(proposed[i]) =>
               \E j \in DOMAIN returned : returned[j].value = proposed[i].value
    /\ \A j \in DOMAIN returned : ~HasSlash(value_str(returned[j]))

\* C21: with more than two blood-pressure candidates and no blood pressure
\* in the transcript, normalize_vitals and post_process make no merge and
\* keep every candidate
C21_AmbiguousCandidatesKept ==
    ((pc = "vitals_normalized" \/ ReturnedOnce) /\ Ambiguous(g_in.vitals, transcript)) =>
        CandidatesKept(g.vitals, g_in.vitals)

\* the category key of an order hits no key of the rule table, neither
\* exactly nor as a substring in either direction
HitsNoKey(table, name) ==
    /\ name # None
    /\ \A i \in DOMAIN table :
           /\ table[i].key # Strip(Lower(name))
           /\ ~Contains(table[i].key, Strip(Lower(name)))
           /\ ~Contains(Strip(Lower(name)), table[i].key)

\* no drug class is known for the name of a medication order
NoDrugClass(name) ==
    /\ normalize_medication(name) \notin Range(RXNORM_KEYS)
    /\ normalize_medication(name) \notin
           UNION { Range(RXNORM_DATABASE(k).brands) : k \in Range(RXNORM_KEYS) }

\* the order carries no link: the attribute is missing or None
Unlinked(order) ==
    "linked_diagnosis" \in DOMAIN order => order.linked_diagnosis = NoLink

\* C24: after enrich_orders_with_diagnoses an order whose category key hits
\* no key of its rule table, and a medication order without a drug class,
\* carries no link at all
C24_NoRuleNoLink ==
    pc = "orders_linked" =>
        /\ \A i \in DOMAIN g.lab_orders :
               HitsNoKey(LAB_DIAGNOSIS_RULES, g.lab_orders[i].name) => Unlinked(g.lab_orders[i])
        /\ \A i \in DOMAIN g.referral_orders :
               HitsNoKey(CONSULT_DIAGNOSIS_RULES, g.referral_orders[i].specialty) =>
                   Unlinked(g.referral_orders[i])
        /\ \A i \in DOMAIN g.procedure_orders :
               HitsNoKey(PROCEDURE_DIAGNOSIS_RULES, g.procedure_orders[i].name) =>
                   Unlinked(g.procedure_orders[i])
        /\ \A i \in DOMAIN g.medication_orders :
               NoDrugClass(g.medication_orders[i].name) => Unlinked(g.medication_orders[i])

\* the call returned, one lab order was linked and the next one, whose name
\* hits no key, was not
C24_Witness ==
    /\ pc = "orders_linked"
    /\ ~raised
    /\ Len(g.lab_orders) = 2
    /\ g.lab_orders[1].name = "CBC"
    /\ "linked_diagnosis" \in DOMAIN g.lab_orders[1]
    /\ g.lab_orders[2].name = "n/a"
    /\ HitsNoKey(LAB_DIAGNOSIS_RULES, g.lab_orders[2].name)
    /\ Unlinked(g.lab_orders[2])

\* the best similarity of a normalized name to the names of a table, in
\* ten-thousandths
BestScore(normalized, names) ==
    IF names = {} THEN 0
    ELSE LET scores == { similarity_score(normalized, k) : k \in names }
         IN  CHOOSE s \in scores : \A s2 \in scores : s2 <= s

\* the canonical diagnosis names a normalized name is an alias of
CanonicalOf(normalized) ==
    { k \in Range(ICD10_KEYS) : << normalized, k >> \in StaticTables.SYNONYMS }

\* the tiers of the diagnosis lookup, first hit wins: [code, confidence] of
\* a coded condition c is what the tier that hits first gives
DiagnosisByTier(c) ==
    LET n == normalize_condition(c.name)
        best == BestScore(n, Range(ICD10_KEYS))
    IN  IF n \in Range(ICD10_KEYS)
        THEN c.icd10 = ICD10_DATABASE(n) /\ c.confidence = 100
        ELSE IF CanonicalOf(n) # {}
        THEN c.icd10 \in { ICD10_DATABASE(k) : k \in CanonicalOf(n) } /\ c.confidence = 95
        ELSE IF best >= MIN_SIMILARITY
        THEN /\ c.icd10 \in { ICD10_DATABASE(k) :
                                k \in { k2 \in Range(ICD10_KEYS) : similarity_score(n, k2) = best } }
             /\ c.confidence = Round2(best)
        ELSE \E i \in DOMAIN g_in.conditions :
                 /\ g_in.conditions[i].id = c.id
                 /\ g_in.conditions[i].icd10 = c.icd10
                 /\ g_in.conditions[i].confidence = c.confidence

\* the first name, in table order, that has the best similarity
FirstBest(normalized, keys) ==
    keys[CHOOSE i \in DOMAIN keys :
           /\ similarity_score(normalized, keys[i]) = BestScore(normalized, Range(keys))
           /\ \A j \in 1..(i - 1) :
                  similarity_score(normalized, keys[j]) < BestScore(normalized, Range(keys))]

\* a name that reaches the fuzzy tier of the diagnosis lookup
ReachesFuzzyTier(name) ==
    /\ Truthy(name)
    /\ normalize_condition(name) \notin Range(ICD10_KEYS)
    /\ CanonicalOf(normalize_condition(name)) = {}

\* C23: a condition coded by the fuzzy tier gets the code of the first key
\* of highest similarity when that similarity is strictly above the
\* threshold, and no code from the tier otherwise
C23_FuzzyStrictlyAboveThreshold ==
    ReturnedOnce =>
        \A i \in DOMAIN g.conditions :
            ReachesFuzzyTier(g.conditions[i].name) =>
                LET c == g.conditions[i]
                    n == normalize_condition(c.name)
                    best == BestScore(n, Range(ICD10_KEYS))
                IN  IF best > MIN_SIMILARITY
                    THEN /\ c.icd10 = ICD10_DATABASE(FirstBest(n, ICD10_KEYS))
                         /\ c.confidence = Round2(best)
                    ELSE \E j \in DOMAIN g_in.conditions :
                             /\ g_in.conditions[j].id = c.id
                             /\ g_in.conditions[j].icd10 = c.icd10

\* the generic names a normalized name is a brand of
GenericOf(normalized) ==
    { k \in Range(RXNORM_KEYS) :
        \E i \in DOMAIN RXNORM_DATABASE(k).brands : RXNORM_DATABASE(k).brands[i] = normalized }

BrandNames == UNION { Range(RXNORM_DATABASE(k).brands) : k \in Range(RXNORM_KEYS) }

\* the tiers of the medication lookup, first hit wins
MedicationByTier(m) ==
    LET n == normalize_medication(m.name)
        best == BestScore(n, Range(RXNORM_KEYS) \cup BrandNames)
    IN  IF n \in Range(RXNORM_KEYS)
        THEN m.rxnorm = RXNORM_DATABASE(n).rxcui /\ m.confidence = 100
        ELSE IF GenericOf(n) # {}
        THEN m.rxnorm \in { RXNORM_DATABASE(k).rxcui : k \in GenericOf(n) } /\ m.confidence = 98
        ELSE IF best >= MIN_SIMILARITY
        THEN m.rxnorm_matched /\ m.confidence = Round2(best)
        ELSE ~m.rxnorm_matched

\* C16: a coded name is resolved by the first tier that hits: the canonical
\* table at confidence 1.0, then the synonym table at 0.95 (the brand table
\* at 0.98 for a medication), then the fuzzy match; with no hit nothing is
\* written
C16_FirstTierWins ==
    /\ ReturnedOnce =>
          \A i \in DOMAIN g.conditions :
              Truthy(g.conditions[i].name) => DiagnosisByTier(g.conditions[i])
    /\ pc = "medications_coded" =>
          \A i \in DOMAIN g.medications :
              Truthy(g.medications[i].name) => MedicationByTier(g.medications[i])

\* a brand name that also resembles a generic name was coded by the brand
\* table, next to a name that is a table key
C16_Witness ==
    /\ pc = "medications_coded"
    /\ \E i, j \in DOMAIN g.medications :
           /\ g.medications[i].name = "vancocin"
           /\ g.medications[i].rxnorm = "11124"
           /\ g.medications[i].confidence = 98
           /\ similarity_score("vancocin", "vancomycin") >= MIN_SIMILARITY
           /\ g.medications[j].name = "augmentin"
           /\ g.medications[j].confidence = 100

\* the candidates of a rule entry whose code is the code of a coded Condition
CodeCandidates(rules, conditions) ==
    { i \in DOMAIN rules :
        \E j \in DOMAIN conditions :
            Truthy(conditions[j].icd10) /\ conditions[j].icd10 = rules[i].icd10 }

\* the candidates whose display text is in, or contains, a Condition name
NameCandidates(rules, conditions) ==
    { i \in DOMAIN rules :
        \E j \in DOMAIN conditions :
            /\ Truthy(conditions[j].name)
            /\ \/ Contains(Lower(rules[i].display), Lower(conditions[j].name))
               \/ Contains(Lower(conditions[j].name), Lower(rules[i].display)) }

\* the links the stated preference allows: a code candidate, only without
\* one a name candidate, only otherwise the first candidate
PreferredLinks(rules, conditions) ==
    IF CodeCandidates(rules, conditions) # {}
    THEN { DiagnosisLink(rules[i].icd10, rules[i].display,
                         IF rules[i].confidence + 5 > 100 THEN 100 ELSE rules[i].confidence + 5,
                         "patient_condition") : i \in CodeCandidates(rules, conditions) }
    ELSE IF NameCandidates(rules, conditions) # {}
    THEN { DiagnosisLink(rules[i].icd10, rules[i].display,
                         IF rules[i].confidence + 3 > 100 THEN 100 ELSE rules[i].confidence + 3,
                         "patient_condition") : i \in NameCandidates(rules, conditions) }
    ELSE { DiagnosisLink(rules[1].icd10, rules[1].display, rules[1].confidence, "rule") }

\* the rule entry of a referral order, the empty list when there is none
ConsultRules(order) ==
    IF ~Truthy(order.specialty) THEN <<>>
    ELSE find_rules(StaticTables.CONSULT_DIAGNOSIS_RULES, _normalize_name(order.specialty))

\* C17: a linked referral order carries a candidate of its rule entry chosen
\* over the whole candidate list: one whose code is a Condition's code
\* (base + 0.05, 'patient_condition'), only without such a candidate one
\* whose display matches a Condition name (base + 0.03), only otherwise the
\* first candidate at base confidence with method 'rule'
C17_CodeMatchPreferred ==
    (pc = "orders_linked" /\ ~raised) =>
        \A i \in DOMAIN g.referral_orders :
            ConsultRules(g.referral_orders[i]) # <<>> =>
                g.referral_orders[i].linked_diagnosis
                    \in PreferredLinks(ConsultRules(g.referral_orders[i]), g.conditions)

\* the first dose match of the transcript whose drug token is in, or
\* contains, the name; 0 when there is none
DoseMatchFor(name, t) ==
    IF ~Truthy(name) THEN 0
    ELSE FirstIndex([ idx \in DOMAIN t.doses |->
                        \/ Contains(Lower(t.doses[idx].drug), Lower(name))
                        \/ Contains(Lower(name), Lower(t.doses[idx].drug)) ])

\* the expanded form of a captured frequency
ExpandedFrequency(freq) ==
    CASE freq = "bid" -> "twice daily"
      [] freq = "tid" -> "three times daily"
      [] freq = "qid" -> "four times daily"
      [] freq = "daily" -> "once daily"
      [] freq = "once" -> "once daily"
      [] freq = "twice" -> "twice daily"
      [] OTHER -> freq

\* the entries of a returned list are the proposed ones, none dropped or added
SameEntries(returned, proposed) ==
    /\ Len(returned) = Len(proposed)
    /\ \A i \in DOMAIN returned : returned[i].name = proposed[i].name

\* entry i arrived without a dose and is named by a dose match, and the
\* returned entry carries the dose and the expanded frequency of that match
Backfilled(returned, proposed, i) ==
    LET k == DoseMatchFor(proposed[i].name, transcript)
    IN  (proposed[i].dose = None /\ k # 0) =>
            /\ returned[i].dose = transcript.doses[k].dose \o " " \o transcript.doses[k].unit
            /\ Truthy(transcript.doses[k].freq) =>
                   returned[i].frequency = ExpandedFrequency(transcript.doses[k].freq)

\* C18: post_process fills the dose ('<number> <unit>') and the expanded
\* frequency of every Medication and MedicationOrder that arrived without a
\* dose and is named by a drug-and-dose match of the transcript
C18_DoseBackfilled ==
    ReturnedOnce =>
        /\ SameEntries(g.medications, g_in.medications) =>
               \A i \in DOMAIN g.medications : Backfilled(g.medications, g_in.medications, i)
        /\ SameEntries(g.medication_orders, g_in.medication_orders) =>
               \A i \in DOMAIN g.medication_orders :
                   Backfilled(g.medication_orders, g_in.medication_orders, i)

\* the rule list of the drug class of a medication order, empty without one
ClassRules(order) ==
    IF get_drug_class(order.name) = None THEN <<>>
    ELSE rules_get(MEDICATION_DIAGNOSIS_RULES, get_drug_class(order.name))

\* the candidate a link names is matched by a Condition, by code or by name
MatchedBy(link, rules, conditions) ==
    \E i \in CodeCandidates(rules, conditions) \cup NameCandidates(rules, conditions) :
        rules[i].icd10 = link.icd10

\* C25: a medication order whose drug class has a rule list is linked to the
\* first candidate at base confidence with method 'rule' when no Condition
\* matches a candidate, and a link tagged 'patient_condition' names a
\* candidate that a Condition matched
C25_RuleDefaultWithoutMatch ==
    pc = "medications_linked" =>
        \A i \in DOMAIN g.medication_orders :
            LET rules == ClassRules(g.medication_orders[i])
                link == g.medication_orders[i].linked_diagnosis
            IN  rules # <<>> =>
                  /\ (CodeCandidates(rules, g.conditions) \cup NameCandidates(rules, g.conditions) = {})
                        => link = DiagnosisLink(rules[1].icd10, rules[1].display,
                                                rules[1].confidence, "rule")
                  /\ link.method = "patient_condition" => MatchedBy(link, rules, g.conditions)

\* a name captured by the resolved patterns is in the name of the condition,
\* or the name of the condition is in it
NamedResolved(c, t) ==
    /\ c.name # None
    /\ \E captured \in t.resolved :
           \/ Contains(captured, Strip(Lower(c.name)))
           \/ Contains(Strip(Lower(c.name)), captured)

\* C26: every Condition that post_process returns and whose name holds, or
\* is held by, a name captured from a resolved phrase of the transcript has
\* status resolved, whatever status was proposed
C26_ResolvedOverrides ==
    ReturnedOnce =>
        \A i \in DOMAIN g.conditions :
            NamedResolved(g.conditions[i], transcript) => g.conditions[i].status = "resolved"

\* the phrase captured more than the name, one proposed active condition is
\* held by the capture and returned resolved, another one is returned active
C26_Witness ==
    /\ ReturnedOnce
    /\ \E i, j \in DOMAIN g.conditions :
           /\ NamedResolved(g.conditions[i], transcript)
           /\ Strip(Lower(g.conditions[i].name)) \notin transcript.resolved
           /\ g.conditions[i].status = "resolved"
           /\ \E k \in DOMAIN g_in.conditions :
                  /\ g_in.conditions[k].id = g.conditions[i].id
                  /\ g_in.conditions[k].status = "active"
           /\ g.conditions[j].status = "active"

\* C27: after post_process has returned, no entry of the medication-order
\* list has a name that the non-medication patterns match, whether the entry
\* was proposed or taken from the PLAN section of the transcript
C27_NoNonMedicationOrder ==
    Returned =>
        \A i \in DOMAIN g.medication_orders :
            ~is_non_medication(g.medication_orders[i].name)

\* the (relationship, condition) pair of a family-history item, compared
\* case-insensitively
FamilyKey(fh) == << Lower(fh.relationship), Lower(fh.condition) >>

\* C28: the family-history list that extraction produces holds no two items
\* of the same (relationship, condition) pair compared case-insensitively,
\* proposed items and items taken from the transcript counted together
C28_FamilyHistoryDeduplicated ==
    Returned =>
        \A i, j \in DOMAIN g.family_history :
            i # j => FamilyKey(g.family_history[i]) # FamilyKey(g.family_history[j])

SocialFields == { "tobacco", "alcohol", "drugs", "occupation" }

\* what the patterns of a social-history field find in the transcript, None
\* when they find nothing
Captured(t, field) ==
    CASE field = "tobacco" -> t.tobacco
      [] field = "alcohol" -> t.alcohol
      [] field = "drugs" -> t.drugs
      [] field = "occupation" -> first_occupation(t.occupation)

\* C29: after post_process has returned, a social-history field that was
\* proposed with real text holds that text, whatever the transcript says, and
\* a field that was proposed empty or as a placeholder holds what the
\* transcript says of that field alone, or else its proposal with 'null' cleared
C29_SocialFieldsFilledOnlyWhenEmpty ==
    Returned =>
        \A field \in SocialFields :
            LET before == g_in.social_history[field]
                after == g.social_history[field]
                captured == Captured(transcript, field)
            IN  /\ ~is_placeholder(before) => after = before
                /\ (is_placeholder(before) /\ ~g.social_history.absent) =>
                       after = IF captured # None THEN captured ELSE null_to_none(before)

\* the transcript says something else of a field proposed with real text, the
\* field is returned as proposed and another field was cleared
C29_Witness ==
    /\ Returned
    /\ \E field, other \in SocialFields :
           /\ ~is_placeholder(g_in.social_history[field])
           /\ Captured(transcript, field) # None
           /\ Captured(transcript, field) # g_in.social_history[field]
           /\ g.social_history[field] = g_in.social_history[field]
           /\ g.social_history[other] # g_in.social_history[other]

\* C30: a Condition named by a canonical key of the diagnosis table is
\* returned by post_process with the code of that key at confidence 1.0, and
\* a medication named by a canonical key of the medication table is coded
\* with the rxcui of that key
C30_CanonicalKeysResolveToThemselves ==
    /\ ReturnedOnce =>
           \A i \in DOMAIN g.conditions :
               g.conditions[i].name \in Range(ICD10_KEYS) =>
                   /\ g.conditions[i].icd10 = tables.ICD10_DATABASE[g.conditions[i].name]
                   /\ g.conditions[i].confidence = 100
    /\ pc = "medications_coded" =>
           \A i \in DOMAIN g.medications :
               g.medications[i].name \in Range(RXNORM_KEYS) =>
                   g.medications[i].rxnorm = tables.RXNORM_DATABASE[g.medications[i].name].rxcui

-----------------------------------------------------------------------------
(* Properties of the service *)

\* C8: under every interleaving of the requests the static tables stay as
\* they were initialized, and every call that has ended left what the same
\* call leaves when it runs alone on that request's graph
C8_NoInterference ==
    /\ tables = StaticTables
    /\ \A id \in RequestIds :
         LET r == req[id]
             first == r.alone[1]
             second == r.alone[2]
         IN  /\ r.call \in { "handler", "post_processed", "mapped" } =>
                   ~first.raised /\ r.once = first.e
             /\ r.call \in { "post_processed", "mapped" } =>
                   ~second.raised /\ r.twice = second.e
             /\ r.call = "post_processed" => r.e = r.twice
             /\ r.call = "failed" =>
                   \/ first.raised /\ r.e = first.e
                   \/ ~first.raised /\ second.raised /\ r.e = second.e

\* two requests on different graphs are both in the middle of a post_process
\* call, one in the extraction client and one in the request handler
C8_Witness ==
    \E a, b \in RequestIds :
        /\ req[a].input # req[b].input
        /\ req[a].call = "extract" /\ req[a].k > 3
        /\ req[b].call = "handler" /\ req[b].k > 7

\* the stage of the data flow a statement group belongs to:
\* 1 Normalization & Filtering, 2 Text-Pattern Extractors, 3 Reference
\* Coding, 4 Order-Diagnosis Linking
StageClass(stage) ==
    CASE stage \in { "ensure_blood_pressure", "normalize_vitals", "filter",
                     "clean_null_strings", "clean_social_history" } -> 1
      [] stage \in { "detect_resolved", "chief_complaint", "family_history",
                     "social_history", "medication_dosages", "plan_medication_orders" } -> 2
      [] stage \in { "enrich_conditions", "enrich_medications" } -> 3
      [] stage = "enrich_orders" -> 4

\* C10: the graph handed to the mapper went through Normalization &
\* Filtering, then Text-Pattern Extractors, then Reference Coding of
\* diagnoses and of medications, then Order-Diagnosis Linking, in that order
\* and each of them run
C10_StagesInOrder ==
    \A id \in RequestIds :
        req[id].call = "mapped" =>
            LET log == req[id].log
            IN  /\ \A i, j \in DOMAIN log : i < j => StageClass(log[i]) <= StageClass(log[j])
                /\ \A class \in 1..4 : \E i \in DOMAIN log : StageClass(log[i]) = class
                /\ "enrich_conditions" \in Range(log)
                /\ "enrich_medications" \in Range(log)
                /\ "enrich_orders" \in Range(log)

\* a record of the bundle that carries no value
NoValue(record) ==
    \A f \in { "valueQuantity", "valueString" } : f \in DOMAIN record => record[f] = None

\* a lab result that is not pending
Completed(lab) == "status" \notin DOMAIN lab \/ lab.status = "completed"

\* C19: the bundle made from a graph holds, for every LabOrder, a record
\* with status 'registered' and no value, and for every completed LabResult
\* a record with status 'final' that carries its value and interpretation
C19_LabRecords ==
    \A id \in RequestIds :
        req[id].call = "mapped" =>
            LET e == req[id].e
                bundle == req[id].bundle
            IN  /\ \A i \in DOMAIN e.lab_orders :
                       \E k \in DOMAIN bundle :
                           /\ bundle[k].text = e.lab_orders[i].name
                           /\ bundle[k].resourceType = "ServiceRequest"
                           /\ bundle[k].status = "registered"
                           /\ NoValue(bundle[k])
                /\ \A i \in DOMAIN e.lab_results :
                       Completed(e.lab_results[i]) =>
                           \E k \in DOMAIN bundle :
                               /\ bundle[k].text = e.lab_results[i].name
                               /\ bundle[k].resourceType = "Observation"
                               /\ bundle[k].status = "final"
                               /\ e.lab_results[i].value
                                      \in { bundle[k].valueQuantity, bundle[k].valueString }
                               /\ Truthy(e.lab_results[i].interpretation) =>
                                      bundle[k].interpretation # None

\* the stages of the running call of a request that have been run
Logged(r) == Range(r.log)

\* in every call the vitals are filtered only after they were normalized, and
\* a call that returned has coded the diagnoses in its last stage
CodingIsLast ==
    \A id \in RequestIds :
        /\ "filter" \in Logged(req[id]) => "normalize_vitals" \in Logged(req[id])
        /\ \A i \in DOMAIN req[id].log :
               req[id].log[i] = "enrich_conditions" => i = Len(req[id].log)
        /\ req[id].call \in { "post_processed", "mapped" } =>
               "enrich_conditions" \in Logged(req[id])

\* a step of a call that adds, removes or renames a Condition is taken before
\* the diagnoses are coded, and the step that normalizes the vitals before
\* they are filtered
NoChangeAfterCoding ==
    \A id \in RequestIds :
        LET before == req[id].e.conditions
            after == req'[id].e.conditions
            names(s) == [ i \in DOMAIN s |-> s[i].name ]
        IN  /\ names(before) # names(after) => "enrich_conditions" \notin Logged(req[id])
            /\ ("normalize_vitals" \in Logged(req'[id]) \ Logged(req[id])) =>
                   "filter" \notin Logged(req[id])

\* C22: within post_process the vitals are filtered after they are
\* normalized, and the diagnoses are coded in the last stage, after every
\* stage that adds, removes or renames a Condition
C22_CodingObservesFinalList == []CodingIsLast /\ [][NoChangeAfterCoding]_vars

\* a call has returned after a filter removed a proposed Condition, and the
\* remaining one was coded
C22_Witness ==
    \E id \in RequestIds :
        /\ req[id].call = "post_processed"
        /\ Len(req[id].e.conditions) < Len(req[id].input.conditions)
        /\ \A j \in DOMAIN req[id].input.conditions : req[id].input.conditions[j].icd10 = None
        /\ \E i \in DOMAIN req[id].e.conditions : req[id].e.conditions[i].icd10 # None
        /\ req[id].log[Len(req[id].log)] = "enrich_conditions"

====
